---- MODULE Spec2Model ----
(***************************************************************************)
(* Crucible feature-flag client.                                           *)
(*                                                                         *)
(*  - createFlagClient (packages/core/src/index.ts): the facade with its   *)
(*    two closure variables `initialized` and `initPromise`, and the       *)
(*    asynchronous initialize / evaluate / close methods.  Every await is  *)
(*    a point where other calls interleave, so each method is split at its *)
(*    awaits: the synchronous part of a call is one action, the            *)
(*    settlement of the adapter promise it awaits is another.              *)
(*  - LocalAdapter (adapters/local): rules, percentage rollouts with the   *)
(*    32-bit rolling hash, static flags.                                   *)
(*  - LaunchDarklyAdapter and PostHogAdapter (adapters/launchdarkly,       *)
(*    adapters/posthog): the wrappers of the vendor SDK clients.           *)
(*  - react/server: the module-level server client and context with       *)
(*    getFlag / getFlags / preloadFlags.                                   *)
(*  - react: the hooks useFlag, useFlagWithStatus and useFlags.            *)
(*                                                                         *)
(* JavaScript values are atoms (strings); the non-string ones are written  *)
(* in angle brackets.  Objects are functions from their own keys.          *)
(***************************************************************************)
EXTENDS Integers, Sequences, FiniteSets, TLC

VARIABLES
    config,        \* FlagClientConfig of the client: the adapter (a mock with any behaviour,
                   \* or the LocalAdapter of localConfig), close?, onExposure?, defaultContext
    initialized,   \* let initialized = false
    initPromise,   \* let initPromise: Promise<void> | null (index into promises, 0 = null)
    promises,      \* one entry per adapter.initialize() invocation: the chained promise
    returnedEarly, \* initialize() calls that returned at `if (initialized) return`
    closes,        \* one entry per facade close() call
    evals,         \* one entry per facade evaluate() call
    closedReady,   \* a close() called on a Ready client has resolved, and no initialize()
                   \* call made after that close() was called has succeeded since
    closedMark,    \* number of adapter.initialize() invocations that predate that close()
    localConfig,   \* LocalAdapterConfig: flags, rules, rollouts
    localCalls,    \* one entry per LocalAdapter.evaluate() call
    sdk,           \* a LaunchDarklyAdapter or PostHogAdapter: its configuration and
                   \* `private client` (null, or the SDK client created by initialize())
    sdkCalls,      \* one entry per initialize(), evaluate() or close() call on it
    serverClient,  \* let serverClient: AnyFlagClient | null = null   (react/server)
    serverContext, \* let serverContext: EvaluationContext = {}
    requests,      \* per request in flight: it has called setServerContext(own context)
    serverCalls,   \* one entry per getFlag / getFlags / preloadFlags call
    hook,          \* one component using useFlag / useFlagWithStatus / useFlags: its
                   \* props and its useState cells
    effects        \* one entry per run of the hook's effect: the closure with `cancelled`
                   \* and the evaluations it started

facadeVars == <<config, initialized, initPromise, promises, returnedEarly, closes, evals,
                closedReady, closedMark>>
localVars == <<localConfig, localCalls>>
sdkVars == <<sdk, sdkCalls>>
serverVars == <<serverClient, serverContext, requests, serverCalls>>
hookVars == <<hook, effects>>
reactVars == <<serverVars, hookVars>>
vars == <<config, initialized, initPromise, promises, returnedEarly, closes, evals,
          closedReady, closedMark, localConfig, localCalls, sdk, sdkCalls,
          serverClient, serverContext, requests, serverCalls, hook, effects>>

(***************************************************************************)
(* Bounds of the model.                                                    *)
(***************************************************************************)
MaxInitializeCalls == 3
MaxCloseCalls == 2
MaxEvaluateCalls == 1
MaxRules == 2
MaxRollouts == 2
MaxLocalCalls == 1
MaxRepeatedCalls == 3
MaxSdkCalls == 3
MaxServerCalls == 2
MaxEffects == 3

(***************************************************************************)
(* JavaScript values.                                                      *)
(***************************************************************************)
JsUndefined == "<undefined>"
JsNull == "<null>"
JsFalse == "<false>"
JsTrue == "<true>"
JsZero == "<0>"
JsTen == "<10>"
JsEmptyString == ""

EmptyObject == [k \in {} |-> JsUndefined]

\* a ?? b
Nullish(v) == v \in {JsUndefined, JsNull}
Coalesce(a, b) == IF Nullish(a) THEN b ELSE a

\* obj[key] of a plain object: undefined when the key is not an own property
Get(obj, key) == IF key \in DOMAIN obj THEN obj[key] ELSE JsUndefined

\* { ...a, ...b }
Spread(a, b) == [k \in (DOMAIN a) \cup (DOMAIN b) |-> IF k \in DOMAIN b THEN b[k] ELSE a[k]]

\* ...ctx.attributes inside an object literal: spreading undefined adds nothing
AttributesOf(ctx) == IF "attributes" \in DOMAIN ctx THEN ctx.attributes ELSE EmptyObject


(***************************************************************************)
(* Schema, contexts and the adapter of the client under check.             *)
(***************************************************************************)
\* FlagSchema: an array of string literals, or 'string' | 'number' | 'boolean'
FlagSchema ==
    [ theme    |-> [kind |-> "array",   values |-> <<"light", "dark", "system">>],
      darkMode |-> [kind |-> "boolean", values |-> <<>>],
      maxItems |-> [kind |-> "number",  values |-> <<>>],
      welcomeMessage |-> [kind |-> "string", values |-> <<>>] ]

SchemaValue_FirstFlag(flag) ==
    IF flag \in DOMAIN FlagSchema THEN FlagSchema[flag] ELSE FlagSchema["theme"]

\* schema[flag]
SchemaValue(flag) ==
    IF flag \in DOMAIN FlagSchema THEN FlagSchema[flag]
    ELSE [kind |-> "undefined", values |-> <<>>]

getSchemaDefault_ArrayOnly(schemaValue) ==
    IF schemaValue.kind = "array" /\ Len(schemaValue.values) > 0
    THEN schemaValue.values[1] ELSE JsUndefined

\* function getSchemaDefault(schemaValue)
getSchemaDefault(schemaValue) ==
    IF schemaValue.kind = "array"
    THEN (IF Len(schemaValue.values) > 0 THEN schemaValue.values[1] ELSE JsUndefined)
    ELSE IF schemaValue.kind = "string" THEN JsEmptyString
    ELSE IF schemaValue.kind = "number" THEN JsZero
    ELSE IF schemaValue.kind = "boolean" THEN JsFalse
    ELSE JsUndefined

\* the calls the callers make: evaluate(flag, context, defaultValue); an omitted context
\* is the parameter default {}, an omitted defaultValue is undefined
EvaluateInputs ==
    { [flag |-> "theme", context |-> EmptyObject, defaultValue |-> JsUndefined],
      [flag |-> "theme",
       context |-> [userId |-> "123", attributes |-> [plan |-> "premium", feature |-> "beta"]],
       defaultValue |-> "system"],
      [flag |-> "darkMode", context |-> [userId |-> "123"], defaultValue |-> JsUndefined],
      [flag |-> "darkMode", context |-> EmptyObject, defaultValue |-> JsTrue] }

\* defaultContext of the client under check
DefaultContexts ==
    { [userId |-> "default-user", attributes |-> [country |-> "ID", plan |-> "free"]] }

\* the variants the adapter under the facade may resolve with
AdapterVariants(flag) ==
    CASE flag = "theme"          -> {"light", "dark"}
      [] flag = "darkMode"       -> {JsFalse, JsTrue}
      [] flag = "maxItems"       -> {JsZero, JsTen}
      [] flag = "welcomeMessage" -> {JsEmptyString, "hello"}
      [] OTHER                   -> {JsUndefined}

(***************************************************************************)
(* createFlagClient: evaluate(), the pure part.                            *)
(***************************************************************************)
MergeContext_SpreadsDefaultIntoAttributes(defaultContext, context) ==
    Spread(Spread(defaultContext, context),
           [attributes |-> Spread(defaultContext, AttributesOf(context))])

\* const mergedContext = { ...defaultContext, ...context, attributes: { ... } }
MergeContext(defaultContext, context) ==
    Spread(Spread(defaultContext, context),
           [attributes |-> Spread(AttributesOf(defaultContext), AttributesOf(context))])

\* const fallback = defaultValue ?? schemaDefault
Fallback(flag, defaultValue) == Coalesce(defaultValue, getSchemaDefault(SchemaValue(flag)))

(***************************************************************************)
(* createFlagClient: initialize().                                         *)
(***************************************************************************)
NoPromise == 0

InitializeCalls ==
    returnedEarly + Len(promises)
      + (LET RECURSIVE Joined(_)
             Joined(i) == IF i = 0 THEN 0 ELSE promises[i].joined + Joined(i - 1)
         IN Joined(Len(promises)))

\* if (initialized) return
InitializeSkips == initialized

InitializeShares_Never == FALSE

\* if (initPromise) return initPromise
InitializeShares == initPromise # NoPromise

\* the synchronous part of initialize(): the two guards, then
\* initPromise = adapter.initialize().then(...).catch(...)
Initialize ==
    /\ InitializeCalls < MaxInitializeCalls
    /\ IF InitializeSkips
       THEN /\ returnedEarly' = returnedEarly + 1
            /\ UNCHANGED <<initPromise, promises>>
       ELSE IF InitializeShares
       THEN /\ promises' = [promises EXCEPT ![initPromise].joined = @ + 1]
            /\ UNCHANGED <<initPromise, returnedEarly>>
       ELSE /\ promises' = Append(promises, [state |-> "pending", joined |-> 0])
            /\ initPromise' = Len(promises) + 1
            /\ UNCHANGED returnedEarly
    /\ UNCHANGED <<config, initialized, closes, evals, closedReady, closedMark>>
    /\ UNCHANGED localVars
    /\ UNCHANGED sdkVars
    /\ UNCHANGED reactVars

\* .then(() => { initialized = true })
ThenInitialized == TRUE

ChainSettles_FirstCallerOnly(promise, state) ==
    IF promise.joined > 0 THEN promise ELSE [promise EXCEPT !.state = state]

\* the promise of adapter.initialize().then(...).catch(...) settles: it is the one object
\* returned to the call that created it and to every call that found it in initPromise
ChainSettles(promise, state) == [promise EXCEPT !.state = state]

\* adapter.initialize() fulfils: the .then callback runs, the chained promise fulfils
AdapterInitializeResolves(p) ==
    /\ promises[p].state = "pending"
    /\ initialized' = ThenInitialized
    /\ promises' = [promises EXCEPT ![p] = ChainSettles(@, "fulfilled")]
    /\ closedReady' = IF p > closedMark THEN FALSE ELSE closedReady
    /\ UNCHANGED <<config, initPromise, returnedEarly, closes, evals, closedMark>>
    /\ UNCHANGED localVars
    /\ UNCHANGED sdkVars
    /\ UNCHANGED reactVars

\* .catch((error) => { initPromise = null; throw new InitializationError(...) })
CatchSettlesAs == "rejected: InitializationError"

AdapterInitializeRejects_SetsReady(p) ==
    /\ promises[p].state = "pending"
    /\ initPromise' = NoPromise
    /\ initialized' = TRUE
    /\ promises' = [promises EXCEPT ![p] = ChainSettles(@, CatchSettlesAs)]
    /\ UNCHANGED <<config, returnedEarly, closes, evals, closedReady, closedMark>>
    /\ UNCHANGED localVars
    /\ UNCHANGED sdkVars
    /\ UNCHANGED reactVars

\* adapter.initialize() rejects: the .catch callback runs, the chained promise rejects
AdapterInitializeRejects(p) ==
    /\ promises[p].state = "pending"
    /\ initPromise' = NoPromise
    /\ promises' = [promises EXCEPT ![p] = ChainSettles(@, CatchSettlesAs)]
    /\ UNCHANGED <<config, initialized, returnedEarly, closes, evals, closedReady, closedMark>>
    /\ UNCHANGED localVars
    /\ UNCHANGED sdkVars
    /\ UNCHANGED reactVars

(***************************************************************************)
(* createFlagClient: close().                                              *)
(***************************************************************************)
\* initialized = false; initPromise = null  (the statements after the await)
CloseResets(ready, mark) ==
    /\ initialized' = FALSE
    /\ initPromise' = NoPromise
    /\ closedReady' = IF ready THEN TRUE ELSE closedReady
    /\ closedMark' = IF ready THEN mark ELSE closedMark

\* the client is neither Ready nor initializing: Uninitialized or Closed
Idle == ~initialized /\ initPromise = NoPromise

\* an initialize() is in flight: the handle is set and its operation has not settled
Initializing == initPromise # NoPromise /\ promises[initPromise].state = "pending"

\* a close() call, with the lifecycle state it was called in
CloseCall(state) ==
    [ state |-> state, ready |-> initialized, mark |-> Len(promises), idle |-> Idle,
      initializing |-> Initializing,   \* an initialize() was in flight
      calls |-> InitializeCalls ]      \* the initialize() calls made so far

\* close() up to `await adapter.close()`; without adapter.close the call runs to its end
Close ==
    /\ Len(closes) < MaxCloseCalls
    /\ IF config.hasClose
       THEN /\ closes' = Append(closes, CloseCall("awaiting"))
            /\ UNCHANGED <<initialized, initPromise, closedReady, closedMark>>
       ELSE /\ closes' = Append(closes, CloseCall("resolved"))
            /\ CloseResets(initialized, Len(promises))
    /\ UNCHANGED <<config, promises, returnedEarly, evals>>
    /\ UNCHANGED localVars
    /\ UNCHANGED sdkVars
    /\ UNCHANGED reactVars

\* adapter.close() fulfils: close() resumes and runs to its end
AdapterCloseResolves(c) ==
    /\ closes[c].state = "awaiting"
    /\ closes' = [closes EXCEPT ![c].state = "resolved"]
    /\ CloseResets(closes[c].ready, closes[c].mark)
    /\ UNCHANGED <<config, promises, returnedEarly, evals>>
    /\ UNCHANGED localVars
    /\ UNCHANGED sdkVars
    /\ UNCHANGED reactVars

AdapterCloseRejects_Resets(c) ==
    /\ closes[c].state = "awaiting"
    /\ closes' = [closes EXCEPT ![c].state = "rejected"]
    /\ CloseResets(closes[c].ready, closes[c].mark)
    /\ UNCHANGED <<config, promises, returnedEarly, evals>>
    /\ UNCHANGED localVars
    /\ UNCHANGED sdkVars
    /\ UNCHANGED reactVars

\* adapter.close() rejects: the await throws, close() rejects with that error
AdapterCloseRejects(c) ==
    /\ closes[c].state = "awaiting"
    /\ closes' = [closes EXCEPT ![c].state = "rejected"]
    /\ UNCHANGED <<config, initialized, initPromise, promises, returnedEarly, evals,
                   closedReady, closedMark>>
    /\ UNCHANGED localVars
    /\ UNCHANGED sdkVars
    /\ UNCHANGED reactVars


(***************************************************************************)
(* createFlagClient: evaluate().                                           *)
(***************************************************************************)
NotInitializedError == "InitializationError: Client not initialized. Call initialize() first."

EvaluateRejects_Never == FALSE

\* if (!initialized) throw new InitializationError(...)
EvaluateRejects == ~initialized

\* adapter.evaluate(flag, mergedContext, fallback)
AdapterCallArgs(flag, mergedContext, fallback) ==
    [flag |-> flag, context |-> mergedContext, defaultValue |-> fallback]

ExposureArgs_CallContext(e, variant) ==
    [flag |-> e.flag, variant |-> variant, context |-> e.context]

\* onExposure?.(flag, variant, mergedContext)
ExposureArgs(e, variant) ==
    [flag |-> e.flag, variant |-> variant, context |-> e.mergedContext]

\* the value of evaluate() once the adapter resolved with variant: onExposure is called
\* inside the try block, so a throwing callback lands in `catch { return fallback }`
ReturnAfterExposure(e, variant, callbackThrows) ==
    IF callbackThrows THEN e.fallback ELSE variant

ReturnOnFailure_SchemaDefault(e) == getSchemaDefault(SchemaValue(e.flag))

\* catch (error) { return fallback }
ReturnOnFailure(e) == e.fallback

\* the record of a call that evaluate() has not settled yet
NewCall(flag, context, defaultValue) ==
    [ flag |-> flag, context |-> context, defaultValue |-> defaultValue,
      mergedContext |-> MergeContext(config.defaultContext, context),
      fallback |-> Fallback(flag, defaultValue),
      state |-> "awaiting", result |-> JsUndefined,
      adapter |-> "pending", variant |-> JsUndefined,
      adapterCalls |-> <<>>, exposures |-> <<>>, callbackThrew |-> FALSE,
      ready |-> initialized,         \* the ready flag when evaluate() was called
      afterClose |-> closedReady,    \* closedReady when evaluate() was called
      closeRejected |->              \* a close() of the Ready client had rejected by then
          \E c \in 1..Len(closes) : closes[c].state = "rejected" /\ closes[c].ready ]

Evaluate_AssignsIntoDefault(flag, context, defaultValue, adapterThrows) ==
    /\ Len(evals) < MaxEvaluateCalls
    /\ LET e == NewCall(flag, context, defaultValue)
           called == [e EXCEPT !.adapterCalls =
                         <<AdapterCallArgs(flag, e.mergedContext, e.fallback)>>]
       IN  /\ evals' = Append(evals,
                  IF EvaluateRejects
                  THEN [e EXCEPT !.state = "rejected", !.result = NotInitializedError,
                                 !.adapter = "not called"]
                  ELSE IF adapterThrows
                  THEN [called EXCEPT !.state = "resolved", !.result = ReturnOnFailure(e),
                                      !.adapter = "threw"]
                  ELSE called)
           /\ config' = IF EvaluateRejects THEN config
                        ELSE [config EXCEPT !.defaultContext = e.mergedContext]
    /\ UNCHANGED <<initialized, initPromise, promises, returnedEarly, closes,
                   closedReady, closedMark>>
    /\ UNCHANGED localVars
    /\ UNCHANGED sdkVars
    /\ UNCHANGED reactVars

\* evaluate() up to `await adapter.evaluate(...)`: the guard, the merge, the fallback, the
\* call of the adapter (which may throw before it returns a promise)
Evaluate(flag, context, defaultValue, adapterThrows) ==
    /\ Len(evals) < MaxEvaluateCalls
    /\ LET e == NewCall(flag, context, defaultValue)
           called == [e EXCEPT !.adapterCalls =
                         <<AdapterCallArgs(flag, e.mergedContext, e.fallback)>>]
       IN  evals' = Append(evals,
                IF EvaluateRejects
                THEN [e EXCEPT !.state = "rejected", !.result = NotInitializedError,
                               !.adapter = "not called"]
                ELSE IF adapterThrows
                THEN [called EXCEPT !.state = "resolved", !.result = ReturnOnFailure(e),
                                    !.adapter = "threw"]
                ELSE called)
    /\ UNCHANGED <<config, initialized, initPromise, promises, returnedEarly, closes,
                   closedReady, closedMark>>
    /\ UNCHANGED localVars
    /\ UNCHANGED sdkVars
    /\ UNCHANGED reactVars

\* the call once adapter.evaluate() fulfilled with variant:
\* onExposure?.(flag, variant, mergedContext); return variant
AfterAdapterResolved(e, variant, callbackThrows) ==
    [e EXCEPT !.adapter = "resolved", !.variant = variant,
              !.exposures = IF config.hasOnExposure
                            THEN Append(@, ExposureArgs(e, variant)) ELSE @,
              !.callbackThrew = callbackThrows,
              !.state = "resolved",
              !.result = ReturnAfterExposure(e, variant, callbackThrows)]

\* adapter.evaluate() fulfils with variant: onExposure?.(...), return variant
AdapterEvaluateResolves(i, variant, callbackThrows) ==
    /\ evals[i].state = "awaiting"
    /\ callbackThrows => config.hasOnExposure
    /\ evals' = [evals EXCEPT ![i] = AfterAdapterResolved(evals[i], variant, callbackThrows)]
    /\ UNCHANGED <<config, initialized, initPromise, promises, returnedEarly, closes,
                   closedReady, closedMark>>
    /\ UNCHANGED localVars
    /\ UNCHANGED sdkVars
    /\ UNCHANGED reactVars

AdapterEvaluateRejects_ClearsReady(i) ==
    /\ evals[i].state = "awaiting"
    /\ evals' = [evals EXCEPT ![i] =
            [evals[i] EXCEPT !.adapter = "rejected", !.state = "resolved",
                             !.result = ReturnOnFailure(evals[i])]]
    /\ initialized' = FALSE
    /\ UNCHANGED <<config, initPromise, promises, returnedEarly, closes,
                   closedReady, closedMark>>
    /\ UNCHANGED localVars
    /\ UNCHANGED sdkVars
    /\ UNCHANGED reactVars

\* adapter.evaluate() rejects: catch (error) { return fallback }
AdapterEvaluateRejects(i) ==
    /\ evals[i].state = "awaiting"
    /\ evals' = [evals EXCEPT ![i] =
            [evals[i] EXCEPT !.adapter = "rejected", !.state = "resolved",
                             !.result = ReturnOnFailure(evals[i])]]
    /\ UNCHANGED <<config, initialized, initPromise, promises, returnedEarly, closes,
                   closedReady, closedMark>>
    /\ UNCHANGED localVars
    /\ UNCHANGED sdkVars
    /\ UNCHANGED reactVars

(***************************************************************************)
(* Strings as sequences of UTF-16 code units, for str.charCodeAt(i).       *)
(***************************************************************************)
CharCodes(str) ==
    CASE str = "vip-user"    -> <<118, 105, 112, 45, 117, 115, 101, 114>>
      [] str = "user-1"      -> <<117, 115, 101, 114, 45, 49>>
      [] str = "normal-user" -> <<110, 111, 114, 109, 97, 108, 45, 117, 115, 101, 114>>
      [] str = "test-flag"   -> <<116, 101, 115, 116, 45, 102, 108, 97, 103>>
      [] str = "other-flag"  -> <<111, 116, 104, 101, 114, 45, 102, 108, 97, 103>>
      [] str = "default"     -> <<100, 101, 102, 97, 117, 108, 116>>
      [] str = "exp-a"       -> <<101, 120, 112, 45, 97>>
      [] str = "user-f1chaeka" ->
            <<117, 115, 101, 114, 45, 102, 49, 99, 104, 97, 101, 107, 97>>
      [] str = "user-<U+1F600>" ->   \* an emoji: one code point, two code units
            <<117, 115, 101, 114, 45, 55357, 56832>>
      [] str = "theme"       -> <<116, 104, 101, 109, 101>>
      [] str = "123"         -> <<49, 50, 51>>
      [] str = "default-user" -> <<100, 101, 102, 97, 117, 108, 116, 45, 117, 115, 101, 114>>
      [] str = ":"           -> <<58>>
      [] str = ""            -> <<>>

(***************************************************************************)
(* 32-bit integer arithmetic.  TLC's integers are 32 bits wide and stop on *)
(* overflow, so a 32-bit value is taken apart into 16-bit halves wherever  *)
(* an intermediate result of the JavaScript expression leaves that range.  *)
(***************************************************************************)
TwoTo16 == 2^16
TwoTo15 == 2^15

Hi16(x) == (x \div TwoTo16) % TwoTo16
Lo16(x) == x % TwoTo16

\* the signed 32-bit integer with these two's-complement halves
FromHalves(hi, lo) ==
    IF hi >= TwoTo15 THEN (hi - TwoTo16) * TwoTo16 + lo ELSE hi * TwoTo16 + lo

ShiftLeft5_By4(hash) ==
    LET lo == Lo16(hash) * 16
        hi == Hi16(hash) * 16 + (lo \div TwoTo16)
    IN  FromHalves(hi % TwoTo16, lo % TwoTo16)

\* hash << 5
ShiftLeft5(hash) ==
    LET lo == Lo16(hash) * 32
        hi == Hi16(hash) * 32 + (lo \div TwoTo16)
    IN  FromHalves(hi % TwoTo16, lo % TwoTo16)

\* hash = shifted - hash + char; hash = hash & hash  (ToInt32 of the sum)
SubAddToInt32(shifted, hash, char) ==
    LET lo == Lo16(shifted) - Lo16(hash) + char
        hi == Hi16(shifted) - Hi16(hash) + (lo \div TwoTo16)
    IN  FromHalves(hi % TwoTo16, lo % TwoTo16)

(***************************************************************************)
(* LocalAdapter.                                                           *)
(***************************************************************************)
\* the loop of simpleHash from index i on, entered with the current value of `hash`;
\* the result is `hash` before Math.abs.  (The test of `next` only makes TLC compute
\* the value before it enters the next iteration, instead of nesting the iterations.)
RECURSIVE HashLoop(_, _, _)
HashLoop(codes, i, hash) ==
    IF i > Len(codes) THEN hash
    ELSE LET next == SubAddToInt32(ShiftLeft5(hash), hash, codes[i])
         IN  IF next \in Int THEN HashLoop(codes, i + 1, next) ELSE next

simpleHashInt32(codes) == HashLoop(codes, 1, 0)

AbsMod100_NoAbs(hash) ==
    IF hash >= 0 THEN hash % 100 ELSE 0 - ((((-(hash + 1)) % 100) + 1) % 100)

\* Math.abs(hash) % 100, where Math.abs(-2^31) = 2^31 is outside TLC's integers:
\* for hash < 0, |hash| = -(hash + 1) + 1
AbsMod100(hash) ==
    IF hash >= 0 THEN hash % 100 ELSE (((-(hash + 1)) % 100) + 1) % 100

\* const input = `${userId}:${flag}:${seed ?? 'default'}`
RolloutInput(userId, flag, seed) ==
    CharCodes(userId) \o CharCodes(":") \o CharCodes(flag) \o CharCodes(":")
        \o CharCodes(Coalesce(seed, "default"))

\* const bucket = this.simpleHash(input) % 100
Bucket(userId, flag, seed) == AbsMod100(simpleHashInt32(RolloutInput(userId, flag, seed)))

isUserInRollout_BucketFromOne(userId, percentage, flag, seed) ==
    Bucket(userId, flag, seed) + 1 < percentage

isUserInRollout_Inclusive(userId, percentage, flag, seed) ==
    IF percentage <= 0 THEN FALSE
    ELSE IF percentage >= 100 THEN TRUE
    ELSE Bucket(userId, flag, seed) <= percentage

isUserInRollout_AtOrAbove(userId, percentage, flag, seed) ==
    IF percentage <= 0 THEN FALSE
    ELSE IF percentage >= 100 THEN TRUE
    ELSE Bucket(userId, flag, seed) >= percentage

\* private isUserInRollout(userId, percentage, flag, seed)
isUserInRollout(userId, percentage, flag, seed) ==
    IF percentage <= 0 THEN FALSE
    ELSE IF percentage >= 100 THEN TRUE
    ELSE Bucket(userId, flag, seed) < percentage

\* the match predicates of the rules configured: r.match(context)
Matches(match, context) ==
    CASE match = "isVip"  -> Get(context, "userId") = "vip-user"
      [] match = "always" -> TRUE
      [] match = "never"  -> FALSE
      [] match = "isEnterprise" ->
            /\ "attributes" \in DOMAIN context
            /\ Get(context.attributes, "plan") = "enterprise"

Truthy_EmptyString(v) == v \notin {JsUndefined, JsNull, JsFalse, JsZero}

\* if (rollout && context.userId): a string is truthy unless it is empty
Truthy(v) == v \notin {JsUndefined, JsNull, JsEmptyString, JsFalse, JsZero}

FindRule_Last(rules, flag, context) ==
    LET hits == {i \in 1..Len(rules) : rules[i].flag = flag /\ Matches(rules[i].match, context)}
    IN  IF hits = {} THEN 0 ELSE CHOOSE i \in hits : \A j \in hits : i >= j

\* rules?.find((r) => r.flag === flag && r.match(context)): its index, 0 when none
FindRule(rules, flag, context) ==
    LET hits == {i \in 1..Len(rules) : rules[i].flag = flag /\ Matches(rules[i].match, context)}
    IN  IF hits = {} THEN 0 ELSE CHOOSE i \in hits : \A j \in hits : i <= j

FindRollout_Last(rollouts, flag) ==
    LET hits == {i \in 1..Len(rollouts) : rollouts[i].flag = flag}
    IN  IF hits = {} THEN 0 ELSE CHOOSE i \in hits : \A j \in hits : i >= j

\* rollouts?.find((r) => r.flag === flag): its index, 0 when none
FindRollout(rollouts, flag) ==
    LET hits == {i \in 1..Len(rollouts) : rollouts[i].flag = flag}
    IN  IF hits = {} THEN 0 ELSE CHOOSE i \in hits : \A j \in hits : i <= j

StaticValue_Or(flags, flag, defaultValue) ==
    IF Truthy(Get(flags, flag)) THEN Get(flags, flag) ELSE defaultValue

\* this.config.flags[flag] ?? defaultValue
StaticValue(flags, flag, defaultValue) == Coalesce(Get(flags, flag), defaultValue)

LocalEvaluate_RolloutFirst(cfg, flag, context, defaultValue) ==
    LET rule == FindRule(cfg.rules, flag, context)
        rollout == FindRollout(cfg.rollouts, flag)
    IN  IF rollout # 0 /\ Truthy(Get(context, "userId"))
           /\ isUserInRollout(context.userId, cfg.rollouts[rollout].percentage,
                              flag, cfg.rollouts[rollout].seed)
        THEN [value |-> cfg.rollouts[rollout].variant, via |-> "rollout"]
        ELSE IF rule # 0
        THEN [value |-> cfg.rules[rule].variant, via |-> "rule"]
        ELSE [value |-> StaticValue(cfg.flags, flag, defaultValue), via |-> "static"]

\* async evaluate(flag, context, defaultValue): the value returned and the return
\* statement that produced it
LocalEvaluate(cfg, flag, context, defaultValue) ==
    LET rule == FindRule(cfg.rules, flag, context)
        rollout == FindRollout(cfg.rollouts, flag)
    IN  IF rule # 0
        THEN [value |-> cfg.rules[rule].variant, via |-> "rule"]
        ELSE IF rollout # 0 /\ Truthy(Get(context, "userId"))
                /\ isUserInRollout(context.userId, cfg.rollouts[rollout].percentage,
                                   flag, cfg.rollouts[rollout].seed)
        THEN [value |-> cfg.rollouts[rollout].variant, via |-> "rollout"]
        ELSE [value |-> StaticValue(cfg.flags, flag, defaultValue), via |-> "static"]

\* the configurations and calls checked
LocalFlags == {"test-flag", "other-flag"}
LocalContexts ==
    { EmptyObject, [userId |-> JsUndefined], [userId |-> JsEmptyString],
      [userId |-> "vip-user"], [userId |-> "user-1"], [userId |-> "normal-user"],
      [userId |-> "user-f1chaeka"], [userId |-> "user-<U+1F600>"] }
LocalDefaults == {"fallback"}
RulePool ==
    { [flag |-> "test-flag",  match |-> "isVip",  variant |-> "vip-variant"],
      [flag |-> "test-flag",  match |-> "always", variant |-> "rule-value"],
      [flag |-> "other-flag", match |-> "always", variant |-> "other-rule"] }
RolloutPool ==
    { [flag |-> "test-flag", percentage |-> pc, percentageKind |-> "finite",
       variant |-> "rollout-variant", seed |-> JsUndefined] : pc \in {0, 23, 50, 100} }
    \cup { [flag |-> "test-flag", percentage |-> 50, percentageKind |-> "finite",
            variant |-> "exp-variant", seed |-> "exp-a"],
           [flag |-> "other-flag", percentage |-> 100, percentageKind |-> "finite",
            variant |-> "other-rollout", seed |-> JsUndefined] }
StaticFlagMaps ==
    { EmptyObject, [k \in {"test-flag"} |-> "control"], [k \in {"test-flag"} |-> JsFalse] }

SeqsUpTo(S, n) == UNION { [1..k -> S] : k \in 0..n }

\* rollouts with a percentage outside [0, 100]
OutOfRangeRollouts ==
    { [flag |-> "test-flag", percentage |-> pc, percentageKind |-> "finite",
       variant |-> "rollout-variant", seed |-> JsUndefined] : pc \in {0 - 1, 101} }

\* rollouts whose percentage is NaN, an infinity, or not of type number (percentage
\* holds the value of a finite number only)
NonFiniteRollouts ==
    { [flag |-> "test-flag", percentage |-> 0, percentageKind |-> kind,
       variant |-> "rollout-variant", seed |-> JsUndefined]
        : kind \in {"NaN", "Infinity", "-Infinity", "string"} }

validatePercentage_NoUpperBound(kind, percentage, flag) ==
    IF kind # "finite"
    THEN "Error: Invalid percentage. Must be a finite number."
    ELSE IF percentage < 0
    THEN "Error: Invalid percentage. Must be between 0 and 100."
    ELSE "returns"

\* private validatePercentage(percentage, flag): the error thrown, or "returns"
validatePercentage(kind, percentage, flag) ==
    IF kind # "finite"   \* typeof percentage !== 'number' || !Number.isFinite(percentage)
    THEN "Error: Invalid percentage. Must be a finite number."
    ELSE IF percentage < 0 \/ percentage > 100
    THEN "Error: Invalid percentage. Must be between 0 and 100."
    ELSE "returns"

\* constructor(config): this.config.rollouts?.forEach(validatePercentage) throws
ConstructorThrows(cfg) ==
    \E i \in 1..Len(cfg.rollouts) :
        validatePercentage(cfg.rollouts[i].percentageKind, cfg.rollouts[i].percentage,
                           cfg.rollouts[i].flag) # "returns"

\* the configurations passed to new LocalAdapter(config)
LocalConfigCandidates ==
    [ flags : StaticFlagMaps, rules : SeqsUpTo(RulePool, MaxRules),
      rollouts : SeqsUpTo(RolloutPool \cup OutOfRangeRollouts \cup NonFiniteRollouts,
                          MaxRollouts) ]

\* the configurations of the adapters constructed
LocalConfigs == {cfg \in LocalConfigCandidates : ~ConstructorThrows(cfg)}

\* the adapters on which evaluate() is called repeatedly: a rule, one rollout, a
\* static value
RepeatedCallConfigs ==
    { cfg \in LocalConfigs :
        /\ cfg.flags = [k \in {"test-flag"} |-> "control"]
        /\ cfg.rules = << [flag |-> "test-flag", match |-> "isVip", variant |-> "vip-variant"] >>
        /\ Len(cfg.rollouts) = 1
        /\ cfg.rollouts[1].flag = "test-flag"
        /\ cfg.rollouts[1].percentage \in {23, 50} }

\* the number of calls made on one adapter
CallBound == IF localConfig \in RepeatedCallConfigs THEN MaxRepeatedCalls ELSE MaxLocalCalls

LocalAdapterEvaluate_ConsumesRollouts(flag, context, defaultValue) ==
    /\ Len(localCalls) < CallBound
    /\ localCalls' = Append(localCalls,
            [flag |-> flag, context |-> context, defaultValue |-> defaultValue,
             returned |-> LocalEvaluate(
                 IF localCalls = <<>> THEN localConfig
                 ELSE [localConfig EXCEPT !.rollouts = <<>>],
                 flag, context, defaultValue)])
    /\ UNCHANGED localConfig
    /\ UNCHANGED facadeVars
    /\ UNCHANGED sdkVars
    /\ UNCHANGED reactVars

\* one call of adapter.evaluate(flag, context, defaultValue), resolved
LocalAdapterEvaluate(flag, context, defaultValue) ==
    /\ Len(localCalls) < CallBound
    /\ localCalls' = Append(localCalls,
            [flag |-> flag, context |-> context, defaultValue |-> defaultValue,
             returned |-> LocalEvaluate(localConfig, flag, context, defaultValue)])
    /\ UNCHANGED localConfig
    /\ UNCHANGED facadeVars
    /\ UNCHANGED sdkVars
    /\ UNCHANGED reactVars

(***************************************************************************)
(* LaunchDarklyAdapter and PostHogAdapter: thin wrappers of a vendor SDK   *)
(* client held in `private client`, null until initialize() and after      *)
(* close().  A method is split at the SDK promise it awaits.               *)
(***************************************************************************)
\* private client: ld.LDClient | null = null  /  private client: PostHog | null = null
NullClient == JsNull

\* a call on the adapter that does not evaluate a flag
SdkCall(method, state, sdkCalled) ==
    [ method |-> method, state |-> state, sdkCalled |-> sdkCalled,
      client |-> sdk.client,         \* this.client when the call was made
      flag |-> JsEmptyString, context |-> EmptyObject, defaultValue |-> JsUndefined,
      sdkArgs |-> EmptyObject, result |-> JsUndefined ]

\* context.userId || 'anonymous'
UserKey(context) ==
    IF Truthy(Get(context, "userId")) THEN context.userId ELSE "anonymous"

\* LaunchDarkly: { kind: 'user', key: context.userId || 'anonymous', ...context.attributes }
LdContext(context) ==
    Spread([kind |-> "user", key |-> UserKey(context)], AttributesOf(context))

\* String(value) of the attribute values in use
ToStringJs(v) ==
    CASE v = JsTrue -> "true" [] v = JsFalse -> "false" [] v = JsZero -> "0"
      [] v = JsTen -> "10" [] OTHER -> v

\* typeof value === 'string'
IsJsString(v) == v \notin {JsUndefined, JsNull, JsTrue, JsFalse, JsZero, JsTen}

\* key.startsWith('$group_'), and key.replace('$group_', '')
IsGroupKey(key) == key \in {"$group_company"}
GroupType(key) == CASE key = "$group_company" -> "company"

\* PostHog: the distinctId and the options passed to getFeatureFlag
PostHogArgs(context) ==
    LET attributes == AttributesOf(context)
        groupKeys == {k \in DOMAIN attributes : IsGroupKey(k) /\ IsJsString(attributes[k])}
        propertyKeys == {k \in DOMAIN attributes \ groupKeys : ~Nullish(attributes[k])}
        groupTypes == {GroupType(k) : k \in groupKeys}
    IN  [ distinctId |-> UserKey(context),
          personProperties |->
              IF propertyKeys = {} THEN JsUndefined
              ELSE [k \in propertyKeys |-> ToStringJs(attributes[k])],
          groups |->
              IF groupKeys = {} THEN JsUndefined
              ELSE [t \in groupTypes |->
                       attributes[CHOOSE k \in groupKeys : GroupType(k) = t]] ]

NotInitializedSdkError ==
    IF sdk.vendor = "launchdarkly" THEN "Error: LaunchDarkly client not initialized"
    ELSE "Error: PostHog client not initialized"

\* initialize(): this.client = <new SDK client>, then LaunchDarkly awaits
\* waitForInitialization(), PostHog awaits reloadFeatureFlags() if it has a personal key
VendorInitialize ==
    /\ Len(sdkCalls) < MaxSdkCalls
    /\ sdk' = [sdk EXCEPT !.client = "client"]
    /\ sdkCalls' = Append(sdkCalls,
          IF sdk.vendor = "launchdarkly" \/ sdk.personalApiKey
          THEN SdkCall("initialize", "awaiting", TRUE)
          ELSE SdkCall("initialize", "resolved", TRUE))
    /\ UNCHANGED facadeVars
    /\ UNCHANGED localVars
    /\ UNCHANGED reactVars

\* the SDK promise initialize() awaits settles: initialize() settles the same way
VendorInitializeSettles(c, fulfilled) ==
    /\ sdkCalls[c].method = "initialize" /\ sdkCalls[c].state = "awaiting"
    /\ sdkCalls' = [sdkCalls EXCEPT ![c].state = IF fulfilled THEN "resolved" ELSE "rejected"]
    /\ UNCHANGED sdk
    /\ UNCHANGED facadeVars
    /\ UNCHANGED localVars
    /\ UNCHANGED reactVars

VendorEvaluateGuard_ResolvesDefault(c) ==
    [c EXCEPT !.state = "resolved", !.result = c.defaultValue]

\* if (!this.client) throw new Error('... client not initialized')
VendorEvaluateGuard(c) == [c EXCEPT !.state = "rejected", !.result = NotInitializedSdkError]

\* evaluate(flag, context, defaultValue) up to the await of client.variation(...) /
\* client.getFeatureFlag(...)
VendorEvaluate(flag, context, defaultValue) ==
    /\ Len(sdkCalls) < MaxSdkCalls
    /\ LET c == [SdkCall("evaluate", "awaiting", FALSE) EXCEPT
                    !.flag = flag, !.context = context, !.defaultValue = defaultValue]
       IN  sdkCalls' = Append(sdkCalls,
              IF sdk.client = NullClient
              THEN VendorEvaluateGuard(c)
              ELSE [c EXCEPT !.sdkCalled = TRUE,
                             !.sdkArgs = IF sdk.vendor = "launchdarkly"
                                         THEN LdContext(context) ELSE PostHogArgs(context)])
    /\ UNCHANGED sdk
    /\ UNCHANGED facadeVars
    /\ UNCHANGED localVars
    /\ UNCHANGED reactVars

\* the SDK call fulfils with result.  LaunchDarkly: return result.  PostHog:
\* if (result === undefined || result === null) return defaultValue; return result
VendorSdkResolves(c, result) ==
    /\ sdkCalls[c].method = "evaluate" /\ sdkCalls[c].state = "awaiting"
    /\ sdkCalls' = [sdkCalls EXCEPT ![c] =
          [@ EXCEPT !.state = "resolved",
                    !.result = IF sdk.vendor = "posthog" /\ Nullish(result)
                               THEN sdkCalls[c].defaultValue ELSE result]]
    /\ UNCHANGED sdk
    /\ UNCHANGED facadeVars
    /\ UNCHANGED localVars
    /\ UNCHANGED reactVars

\* the SDK call rejects.  LaunchDarkly: the await throws, evaluate() rejects.  PostHog:
\* catch { return defaultValue }
VendorSdkRejects(c) ==
    /\ sdkCalls[c].method = "evaluate" /\ sdkCalls[c].state = "awaiting"
    /\ sdkCalls' = [sdkCalls EXCEPT ![c] =
          IF sdk.vendor = "posthog"
          THEN [@ EXCEPT !.state = "resolved", !.result = sdkCalls[c].defaultValue]
          ELSE [@ EXCEPT !.state = "rejected", !.result = "Error: SDK failure"]]
    /\ UNCHANGED sdk
    /\ UNCHANGED facadeVars
    /\ UNCHANGED localVars
    /\ UNCHANGED reactVars

\* close() up to the await: if (this.client) { await this.client.close() / shutdown() ...
VendorClose ==
    /\ Len(sdkCalls) < MaxSdkCalls
    /\ sdkCalls' = Append(sdkCalls,
          IF sdk.client # NullClient
          THEN SdkCall("close", "awaiting", TRUE)
          ELSE SdkCall("close", "resolved", FALSE))
    /\ UNCHANGED sdk
    /\ UNCHANGED facadeVars
    /\ UNCHANGED localVars
    /\ UNCHANGED reactVars

\* the SDK's close fulfils: this.client = null; or it rejects: close() rejects
VendorCloseSettles(c, fulfilled) ==
    /\ sdkCalls[c].method = "close" /\ sdkCalls[c].state = "awaiting"
    /\ sdkCalls' = [sdkCalls EXCEPT ![c].state = IF fulfilled THEN "resolved" ELSE "rejected"]
    /\ sdk' = IF fulfilled THEN [sdk EXCEPT !.client = NullClient] ELSE sdk
    /\ UNCHANGED facadeVars
    /\ UNCHANGED localVars
    /\ UNCHANGED reactVars

\* the adapters constructed and the calls made on them
SdkAdapters ==
    { [vendor |-> "launchdarkly", personalApiKey |-> FALSE, client |-> NullClient],
      [vendor |-> "posthog", personalApiKey |-> FALSE, client |-> NullClient],
      [vendor |-> "posthog", personalApiKey |-> TRUE, client |-> NullClient] }
SdkInputs ==
    { [flag |-> "newCheckout", context |-> EmptyObject, defaultValue |-> JsFalse],
      [flag |-> "pricingTier",
       context |-> [userId |-> "user-123",
                    attributes |-> ("plan" :> "pro" @@ "beta" :> JsTrue
                                    @@ "$group_company" :> "acme")],
       defaultValue |-> "basic"] }
SdkResults == {JsUndefined, "enterprise"}

\* the adapter that stands by, unused, in the other specifications
SdkInitFixed ==
    /\ sdk = [vendor |-> "launchdarkly", personalApiKey |-> FALSE, client |-> NullClient]
    /\ sdkCalls = <<>>

(***************************************************************************)
(* react/server: the module-level serverClient and serverContext, and      *)
(* getFlag / getFlags / preloadFlags.  The server client is any FlagClient: *)
(* each evaluate() it is asked for fulfils with a variant or rejects.  A    *)
(* request is a chain of asynchronous steps; steps of different requests   *)
(* interleave.                                                             *)
(***************************************************************************)
\* the requests in flight and the context each one stores for itself
ServerRequests == {"request-a", "request-b"}
RequestContext(r) ==
    IF r = "request-a" THEN [userId |-> "user-a"]
    ELSE [userId |-> "user-b", attributes |-> [plan |-> "pro"]]

\* the context given to setServerClient (the parameter default is {})
ServerClientContexts == {EmptyObject, [userId |-> "server-user"]}

\* the optional `context` argument: not passed, or one of these objects
ExplicitContexts == {[attributes |-> [plan |-> "free"]]}
ContextArguments ==
    {[given |-> FALSE, context |-> EmptyObject]}
        \cup {[given |-> TRUE, context |-> ctx] : ctx \in ExplicitContexts}

\* the flags asked for: getFlag(flag, defaultValue), getFlags([{flag, defaultValue}])
ServerFlagInputs ==
    { [flag |-> "dark-mode", defaultValue |-> JsFalse],
      [flag |-> "ab-test", defaultValue |-> JsUndefined] }
ServerFlagLists ==
    { << [flag |-> "dark-mode", defaultValue |-> JsFalse],
         [flag |-> "ab-test", defaultValue |-> JsUndefined] >>,
      << [flag |-> "ab-test", defaultValue |-> "control"],
         [flag |-> "dark-mode", defaultValue |-> JsFalse] >> }

PreloadLists == { <<"dark-mode", "ab-test">> }

\* what serverClient.evaluate(flag, ...) may fulfil with
ServerVariants(flag) ==
    IF flag = "dark-mode" THEN {JsTrue} ELSE {"variant-a"}

\* setServerClient(client, context = {})
SetServerClient(context) ==
    /\ serverClient = JsNull
    /\ serverClient' = "client"
    /\ serverContext' = context
    /\ UNCHANGED <<requests, serverCalls>>
    /\ UNCHANGED <<facadeVars, localVars, sdkVars, hookVars>>

\* setServerContext(context), called by request r with its own context
SetServerContext(r) ==
    /\ ~requests[r]
    /\ serverContext' = RequestContext(r)
    /\ requests' = [requests EXCEPT ![r] = TRUE]
    /\ UNCHANGED <<serverClient, serverCalls>>
    /\ UNCHANGED <<facadeVars, localVars, sdkVars, hookVars>>

ServerContextOf_RequestLocal(r) ==
    IF requests[r] THEN RequestContext(r) ELSE serverContext

\* the serverContext a call made by request r reads: the one module-level variable
ServerContextOf(r) == serverContext

EvalContext_Merged(argument, stored) ==
    IF argument.given
    THEN Spread(Spread(stored, argument.context),
                [attributes |-> Spread(AttributesOf(stored), AttributesOf(argument.context))])
    ELSE stored

\* const evalContext = context ?? serverContext
EvalContext(argument, stored) == IF argument.given THEN argument.context ELSE stored

\* flags.reduce((acc, {flag, defaultValue}) => { if (defaultValue !== undefined)
\* acc[flag] = defaultValue; return acc }, {})
DefaultsOf(flags) ==
    LET withDefault == {i \in 1..Len(flags) : flags[i].defaultValue # JsUndefined}
    IN  [f \in {flags[i].flag : i \in withDefault} |->
            flags[CHOOSE i \in withDefault :
                      /\ flags[i].flag = f
                      /\ \A j \in withDefault : flags[j].flag = f => j <= i].defaultValue]

\* results.reduce((acc, {flag, value}) => { acc[flag] = value; return acc }, {})
ResultsOf(flags, evaluations) ==
    [f \in {flags[i].flag : i \in 1..Len(flags)} |->
        evaluations[CHOOSE i \in 1..Len(flags) :
                        /\ flags[i].flag = f
                        /\ \A j \in 1..Len(flags) : flags[j].flag = f => j <= i].value]

\* a call of one of the three functions by request r, up to its first await: without a
\* server client it returns at once, otherwise it has called serverClient.evaluate for
\* every flag with evalContext
ServerCall(fn, r, flags, argument, onFailure) ==
    [ fn |-> fn, request |-> r, flags |-> flags, argument |-> argument,
      ownContextSet |-> requests[r],      \* r had called setServerContext before
      serverContext |-> serverContext,    \* the module variable when the call was made
      onFailure |-> onFailure,
      evalContext |-> IF serverClient = JsNull THEN EmptyObject
                      ELSE EvalContext(argument, ServerContextOf(r)),
      evaluations |-> IF serverClient = JsNull THEN <<>>
                      ELSE [i \in 1..Len(flags) |-> [state |-> "pending", value |-> JsUndefined]],
      state |-> IF serverClient = JsNull THEN "resolved" ELSE "awaiting",
      result |-> onFailure ]

\* getFlag(flag, defaultValue, context): on failure `return defaultValue`
GetFlag(r, in, argument) ==
    /\ Len(serverCalls) < MaxServerCalls
    /\ serverCalls' = Append(serverCalls,
            ServerCall("getFlag", r, <<in>>, argument, in.defaultValue))
    /\ UNCHANGED <<serverClient, serverContext, requests>>
    /\ UNCHANGED <<facadeVars, localVars, sdkVars, hookVars>>

\* getFlags(flags, context): on failure the defaults of the flags that have one
GetFlags(r, flags, argument) ==
    /\ Len(serverCalls) < MaxServerCalls
    /\ serverCalls' = Append(serverCalls,
            ServerCall("getFlags", r, flags, argument, DefaultsOf(flags)))
    /\ UNCHANGED <<serverClient, serverContext, requests>>
    /\ UNCHANGED <<facadeVars, localVars, sdkVars, hookVars>>

\* preloadFlags(flagNames, context): every flag is evaluated with undefined as default,
\* the function returns nothing
PreloadFlags(r, flagNames, argument) ==
    /\ Len(serverCalls) < MaxServerCalls
    /\ serverCalls' = Append(serverCalls,
            ServerCall("preloadFlags", r,
                       [i \in 1..Len(flagNames) |->
                           [flag |-> flagNames[i], defaultValue |-> JsUndefined]],
                       argument, JsUndefined))
    /\ UNCHANGED <<serverClient, serverContext, requests>>
    /\ UNCHANGED <<facadeVars, localVars, sdkVars, hookVars>>

\* the value the call returns once every evaluation has fulfilled
ReturnOnSuccess(call, evaluations) ==
    IF call.fn = "getFlag" THEN evaluations[1].value
    ELSE IF call.fn = "getFlags" THEN ResultsOf(call.flags, evaluations)
    ELSE JsUndefined

ServerCallSettles_PerFlagFallback(call, evaluations) ==
    IF \E i \in 1..Len(evaluations) : evaluations[i].state = "rejected"
    THEN [call EXCEPT !.evaluations = evaluations, !.state = "resolved",
                      !.result =
                          IF call.fn # "getFlags" THEN call.onFailure
                          ELSE LET done == {k \in 1..Len(evaluations) :
                                               evaluations[k].state = "fulfilled"}
                               IN  Spread(call.onFailure,
                                          [f \in {call.flags[k].flag : k \in done} |->
                                              evaluations[CHOOSE k \in done :
                                                  call.flags[k].flag = f].value])]
    ELSE IF \A i \in 1..Len(evaluations) : evaluations[i].state = "fulfilled"
    THEN [call EXCEPT !.evaluations = evaluations, !.state = "resolved",
                      !.result = ReturnOnSuccess(call, evaluations)]
    ELSE [call EXCEPT !.evaluations = evaluations]

\* the call after one of its evaluations settled: the await (of the evaluation, or of
\* Promise.all) throws on the first rejection and the catch returns the defaults; it
\* resumes with the results when the last evaluation has fulfilled
ServerCallSettles(call, evaluations) ==
    IF \E i \in 1..Len(evaluations) : evaluations[i].state = "rejected"
    THEN [call EXCEPT !.evaluations = evaluations, !.state = "resolved",
                      !.result = call.onFailure]
    ELSE IF \A i \in 1..Len(evaluations) : evaluations[i].state = "fulfilled"
    THEN [call EXCEPT !.evaluations = evaluations, !.state = "resolved",
                      !.result = ReturnOnSuccess(call, evaluations)]
    ELSE [call EXCEPT !.evaluations = evaluations]

\* serverClient.evaluate(flag, evalContext, defaultValue) of call c fulfils with value
ServerEvaluateResolves(c, i, value) ==
    /\ serverCalls[c].state = "awaiting"
    /\ serverCalls[c].evaluations[i].state = "pending"
    /\ serverCalls' = [serverCalls EXCEPT ![c] =
            ServerCallSettles(@, [@.evaluations EXCEPT
                                     ![i] = [state |-> "fulfilled", value |-> value]])]
    /\ UNCHANGED <<serverClient, serverContext, requests>>
    /\ UNCHANGED <<facadeVars, localVars, sdkVars, hookVars>>

\* serverClient.evaluate(...) of call c rejects
ServerEvaluateRejects(c, i) ==
    /\ serverCalls[c].state = "awaiting"
    /\ serverCalls[c].evaluations[i].state = "pending"
    /\ serverCalls' = [serverCalls EXCEPT ![c] =
            ServerCallSettles(@, [@.evaluations EXCEPT
                                     ![i] = [state |-> "rejected", value |-> JsUndefined]])]
    /\ UNCHANGED <<serverClient, serverContext, requests>>
    /\ UNCHANGED <<facadeVars, localVars, sdkVars, hookVars>>

\* the server module when it is not used
ServerInitFixed ==
    /\ serverClient = JsNull
    /\ serverContext = EmptyObject
    /\ requests = [r \in ServerRequests |-> FALSE]
    /\ serverCalls = <<>>

(***************************************************************************)
(* react: useFlag, useFlagWithStatus and useFlags in one component.  A     *)
(* render with changed dependencies runs the cleanup of the previous       *)
(* effect and then the effect again; the useState cells keep their value   *)
(* across renders.  The client of the provider is any FlagClient.          *)
(***************************************************************************)
HookKinds == {"useFlag", "useFlagWithStatus", "useFlags"}

\* the props of the component: the flag (for useFlags the flags) with defaults, and the
\* context of the FlagProvider
HookFlagLists(kind) ==
    IF kind = "useFlags"
    THEN { << [flag |-> "dark-mode", defaultValue |-> JsFalse],
              [flag |-> "theme", defaultValue |-> JsUndefined] >>,
           << [flag |-> "theme", defaultValue |-> "system"] >> }
    ELSE { << [flag |-> "dark-mode", defaultValue |-> JsFalse] >>,
           << [flag |-> "theme", defaultValue |-> "system"] >>,
           << [flag |-> "theme", defaultValue |-> JsUndefined] >> }
HookContexts == {EmptyObject, [userId |-> "user-a"]}

\* what client.evaluate(flag, ...) may fulfil with
HookVariants(flag) == IF flag = "dark-mode" THEN {JsTrue} ELSE {"light", "dark"}

\* useState(defaultValue) / useState(defaultValues): the initial value of the cell
InitialValue(kind, flags) ==
    IF kind = "useFlags" THEN DefaultsOf(flags) ELSE flags[1].defaultValue

\* useState<FlagStatus>({ isLoading: true, error: null }); useFlag has no such cell
Loading == [isLoading |-> TRUE, error |-> JsNull]
Loaded == [isLoading |-> FALSE, error |-> JsNull]
Failed(error) == [isLoading |-> FALSE, error |-> error]
NoStatus == [isLoading |-> FALSE, error |-> "<no status cell>"]

\* the dependency array: [client, flag, context, defaultValue], for useFlags
\* [client, context, flagsKey] with flagsKey the flag names joined
Dependencies(kind, flags, context) ==
    IF kind = "useFlags"
    THEN <<[i \in 1..Len(flags) |-> flags[i].flag], context>>
    ELSE <<flags, context>>

\* the body of the effect: without a client it returns (the status hooks set the
\* error), otherwise `let cancelled = false` and the evaluations are started
EffectStatus(h) ==
    IF h.kind = "useFlag" THEN NoStatus
    ELSE IF ~h.hasClient THEN Failed("Error: No FlagProvider found")
    ELSE Loading

NewEffect(flags, context) ==
    [ flags |-> flags, context |-> context, cancelled |-> FALSE,
      evaluations |-> [i \in 1..Len(flags) |-> [state |-> "pending", value |-> JsUndefined]],
      state |-> "pending" ]

\* the cleanup of the last effect that returned one: cancelled = true
Cleanup(es) ==
    IF es = <<>> THEN es ELSE [es EXCEPT ![Len(es)].cancelled = TRUE]

\* the first render of the component and its effect
Mount(flags, context) ==
    /\ hook.mounted = "no"
    /\ hook' = [hook EXCEPT !.mounted = "yes", !.flags = flags, !.context = context,
                            !.value = InitialValue(hook.kind, flags),
                            !.status = EffectStatus(hook)]
    /\ effects' = IF hook.hasClient THEN Append(effects, NewEffect(flags, context))
                  ELSE effects
    /\ UNCHANGED <<facadeVars, localVars, sdkVars, serverVars>>

\* a render with other props or another context: if a dependency changed, the cleanup
\* of the previous effect runs, then the effect
Rerender(flags, context) ==
    /\ hook.mounted = "yes"
    /\ Len(effects) < MaxEffects
    /\ <<flags, context>> # <<hook.flags, hook.context>>
    /\ IF Dependencies(hook.kind, flags, context)
            # Dependencies(hook.kind, hook.flags, hook.context)
       THEN /\ hook' = [hook EXCEPT !.flags = flags, !.context = context,
                                    !.status = EffectStatus(hook)]
            /\ effects' = IF hook.hasClient
                          THEN Append(Cleanup(effects), NewEffect(flags, context))
                          ELSE effects
       ELSE /\ hook' = [hook EXCEPT !.flags = flags, !.context = context]
            /\ UNCHANGED effects
    /\ UNCHANGED <<facadeVars, localVars, sdkVars, serverVars>>

\* the component unmounts: the cleanup of the effect runs
Unmount ==
    /\ hook.mounted = "yes"
    /\ hook' = [hook EXCEPT !.mounted = "unmounted"]
    /\ effects' = Cleanup(effects)
    /\ UNCHANGED <<facadeVars, localVars, sdkVars, serverVars>>

\* the promise the effect waits for, after one of its evaluations settled: the evaluate
\* promise itself, for useFlags Promise.all(evaluations)
EffectPromise(evaluations) ==
    IF \E i \in 1..Len(evaluations) : evaluations[i].state = "rejected" THEN "rejected"
    ELSE IF \A i \in 1..Len(evaluations) : evaluations[i].state = "fulfilled" THEN "fulfilled"
    ELSE "pending"

ThenCatch_IgnoresCancelled(h, e, evaluations) ==
    IF EffectPromise(evaluations) = "fulfilled"
    THEN [h EXCEPT !.value = IF h.kind = "useFlags" THEN ResultsOf(e.flags, evaluations)
                             ELSE evaluations[1].value,
                   !.status = IF h.kind = "useFlag" THEN NoStatus ELSE Loaded]
    ELSE IF EffectPromise(evaluations) = "rejected" /\ h.kind # "useFlag"
    THEN [h EXCEPT !.status = Failed("Error: evaluation failed")]
    ELSE h

\* .then((value) => { if (!cancelled) { setVariant(value); setStatus(...) } })
\* .catch((error) => { if (!cancelled) { console.error(...); setStatus(...) } })
ThenCatch(h, e, evaluations) ==
    IF e.cancelled THEN h
    ELSE IF EffectPromise(evaluations) = "fulfilled"
    THEN [h EXCEPT !.value = IF h.kind = "useFlags" THEN ResultsOf(e.flags, evaluations)
                             ELSE evaluations[1].value,
                   !.status = IF h.kind = "useFlag" THEN NoStatus ELSE Loaded]
    ELSE IF EffectPromise(evaluations) = "rejected" /\ h.kind # "useFlag"
    THEN [h EXCEPT !.status = Failed("Error: evaluation failed")]
    ELSE h

\* an evaluation started by effect e settles
EffectEvaluationSettles(e, i, settled) ==
    /\ effects[e].state = "pending"
    /\ effects[e].evaluations[i].state = "pending"
    /\ LET evaluations == [effects[e].evaluations EXCEPT ![i] = settled]
       IN  /\ effects' = [effects EXCEPT ![e].evaluations = evaluations,
                                         ![e].state = EffectPromise(evaluations)]
           /\ hook' = ThenCatch(hook, effects[e], evaluations)
    /\ UNCHANGED <<facadeVars, localVars, sdkVars, serverVars>>

\* client.evaluate(flag, context, defaultValue) of effect e fulfils with value
EffectEvaluationResolves(e, i, value) ==
    EffectEvaluationSettles(e, i, [state |-> "fulfilled", value |-> value])

\* client.evaluate(...) of effect e rejects
EffectEvaluationRejects(e, i) ==
    EffectEvaluationSettles(e, i, [state |-> "rejected", value |-> JsUndefined])

\* the component when it is not rendered
HookInitFixed ==
    /\ hook = [kind |-> "useFlag", hasClient |-> TRUE, mounted |-> "no", flags |-> <<>>,
               context |-> EmptyObject, value |-> JsUndefined, status |-> NoStatus]
    /\ effects = <<>>

(***************************************************************************)
(* The client: createFlagClient(config) and its callers.                   *)
(***************************************************************************)
LocalInitFixed ==
    /\ localConfig = [flags |-> EmptyObject, rules |-> <<>>, rollouts |-> <<>>]
    /\ localCalls = <<>>
    /\ SdkInitFixed
    /\ ServerInitFixed
    /\ HookInitFixed

Init ==
    /\ config \in [adapter : {"mock"}, hasClose : BOOLEAN, hasOnExposure : BOOLEAN,
                   defaultContext : DefaultContexts]
    /\ initialized = FALSE
    /\ initPromise = NoPromise
    /\ promises = <<>>
    /\ returnedEarly = 0
    /\ closes = <<>>
    /\ evals = <<>>
    /\ closedReady = FALSE
    /\ closedMark = 0
    /\ LocalInitFixed

Next ==
    \/ Initialize
    \/ \E p \in 1..Len(promises) : AdapterInitializeResolves(p)
    \/ \E p \in 1..Len(promises) : AdapterInitializeRejects(p)
    \/ Close
    \/ \E c \in 1..Len(closes) : AdapterCloseResolves(c)
    \/ \E c \in 1..Len(closes) : AdapterCloseRejects(c)
    \/ \E in \in EvaluateInputs, adapterThrows \in BOOLEAN :
           Evaluate(in.flag, in.context, in.defaultValue, adapterThrows)
    \/ \E i \in 1..Len(evals) :
           \E variant \in AdapterVariants(evals[i].flag), callbackThrows \in BOOLEAN :
               AdapterEvaluateResolves(i, variant, callbackThrows)
    \/ \E i \in 1..Len(evals) : AdapterEvaluateRejects(i)

Spec == Init /\ [][Next]_vars

\* every adapter operation that was started settles: the promise of adapter.initialize()
\* fulfils or rejects, the promise of adapter.evaluate() fulfils or rejects
AdapterSettles ==
    /\ \A p \in 1..MaxInitializeCalls :
          WF_vars(p \in 1..Len(promises)
                  /\ (AdapterInitializeResolves(p) \/ AdapterInitializeRejects(p)))
    /\ \A i \in 1..MaxEvaluateCalls :
          WF_vars(i \in 1..Len(evals)
                  /\ (\/ \E variant \in AdapterVariants(evals[i].flag),
                            callbackThrows \in BOOLEAN :
                            AdapterEvaluateResolves(i, variant, callbackThrows)
                      \/ AdapterEvaluateRejects(i)))

SpecLive == Init /\ [][Next]_vars /\ AdapterSettles


(***************************************************************************)
(* A LocalAdapter on its own: new LocalAdapter(config), then evaluate().   *)
(***************************************************************************)
InitLocal ==
    /\ config = [adapter |-> "local", hasClose |-> TRUE, hasOnExposure |-> FALSE,
                 defaultContext |-> EmptyObject]
    /\ initialized = FALSE
    /\ initPromise = NoPromise
    /\ promises = <<>>
    /\ returnedEarly = 0
    /\ closes = <<>>
    /\ evals = <<>>
    /\ closedReady = FALSE
    /\ closedMark = 0
    /\ localConfig \in LocalConfigs
    /\ localCalls = <<>>
    /\ SdkInitFixed
    /\ ServerInitFixed
    /\ HookInitFixed

NextLocal ==
    \E flag \in LocalFlags, context \in LocalContexts, defaultValue \in LocalDefaults :
        LocalAdapterEvaluate(flag, context, defaultValue)

SpecLocal == InitLocal /\ [][NextLocal]_vars


(***************************************************************************)
(* A client whose adapter is a LocalAdapter or a mock, initialized and     *)
(* then evaluated with a range of contexts and defaults.                   *)
(***************************************************************************)
\* adapter.evaluate() of the LocalAdapter under the client: it fulfils with the value
\* LocalAdapter.evaluate returns for the arguments the facade passed
LocalAdapterResolves(i, callbackThrows) ==
    /\ evals[i].state = "awaiting"
    /\ callbackThrows => config.hasOnExposure
    /\ LET a == evals[i].adapterCalls[1]
           returned == LocalEvaluate(localConfig, a.flag, a.context, a.defaultValue)
       IN  /\ localCalls' = Append(localCalls,
                  [flag |-> a.flag, context |-> a.context, defaultValue |-> a.defaultValue,
                   returned |-> returned])
           /\ evals' = [evals EXCEPT ![i] =
                  AfterAdapterResolved(evals[i], returned.value, callbackThrows)]
    /\ UNCHANGED <<config, initialized, initPromise, promises, returnedEarly, closes,
                   closedReady, closedMark, localConfig>>
    /\ UNCHANGED sdkVars
    /\ UNCHANGED reactVars

\* defaultContext of the clients: none, attributes only, userId and attributes
ClientDefaultContexts ==
    { EmptyObject,
      [attributes |-> [country |-> "ID"]],
      [userId |-> "default-user", attributes |-> [country |-> "ID", plan |-> "free"]] }

\* the calls the callers make
ClientInputs ==
    { [flag |-> "theme", context |-> EmptyObject, defaultValue |-> JsUndefined],
      [flag |-> "theme", context |-> [userId |-> JsUndefined], defaultValue |-> JsUndefined],
      [flag |-> "theme", context |-> [userId |-> JsEmptyString], defaultValue |-> "dark"],
      [flag |-> "theme",
       context |-> [userId |-> "123", attributes |-> [plan |-> "premium", feature |-> "beta"]],
       defaultValue |-> JsUndefined],
      [flag |-> "theme",
       context |-> [userId |-> "vip-user", attributes |-> [plan |-> "enterprise"]],
       defaultValue |-> "system"],
      [flag |-> "theme", context |-> [attributes |-> [country |-> "SG"]],
       defaultValue |-> JsUndefined],
      [flag |-> "darkMode", context |-> EmptyObject, defaultValue |-> JsUndefined],
      [flag |-> "darkMode", context |-> EmptyObject, defaultValue |-> JsFalse],
      [flag |-> "maxItems", context |-> EmptyObject, defaultValue |-> JsUndefined],
      [flag |-> "maxItems", context |-> EmptyObject, defaultValue |-> JsZero],
      [flag |-> "maxItems", context |-> [userId |-> "123"], defaultValue |-> JsTen],
      [flag |-> "welcomeMessage", context |-> EmptyObject, defaultValue |-> JsUndefined],
      [flag |-> "welcomeMessage", context |-> EmptyObject, defaultValue |-> JsEmptyString],
      [flag |-> "welcomeMessage", context |-> EmptyObject, defaultValue |-> "hello"],
      [flag |-> "missing-flag", context |-> EmptyObject, defaultValue |-> JsUndefined],
      [flag |-> "missing-flag", context |-> [userId |-> "123"], defaultValue |-> JsUndefined] }

\* the configurations of the LocalAdapter under the client
ClientLocalConfigs ==
    { [flags |-> EmptyObject, rules |-> <<>>, rollouts |-> <<>>],
      [flags |-> [theme |-> "dark"],
       rules |-> << [flag |-> "theme", match |-> "isEnterprise", variant |-> "system"] >>,
       rollouts |-> << [flag |-> "theme", percentage |-> 50, percentageKind |-> "finite",
                        variant |-> "light", seed |-> JsUndefined] >>] }

InitClient ==
    /\ config \in [adapter : {"mock", "local"}, hasClose : {TRUE}, hasOnExposure : BOOLEAN,
                   defaultContext : ClientDefaultContexts]
    /\ initialized = FALSE
    /\ initPromise = NoPromise
    /\ promises = <<>>
    /\ returnedEarly = 0
    /\ closes = <<>>
    /\ evals = <<>>
    /\ closedReady = FALSE
    /\ closedMark = 0
    /\ localConfig \in IF config.adapter = "local" THEN ClientLocalConfigs
                        ELSE {[flags |-> EmptyObject, rules |-> <<>>, rollouts |-> <<>>]}
    /\ localCalls = <<>>
    /\ SdkInitFixed
    /\ ServerInitFixed
    /\ HookInitFixed

NextClient ==
    \/ Initialize
    \/ \E p \in 1..Len(promises) : AdapterInitializeResolves(p)
    \/ \E in \in ClientInputs, adapterThrows \in BOOLEAN :
           /\ adapterThrows => config.adapter = "mock"
           /\ Evaluate(in.flag, in.context, in.defaultValue, adapterThrows)
    \/ \E i \in 1..Len(evals), callbackThrows \in BOOLEAN :
           /\ config.adapter = "local"
           /\ LocalAdapterResolves(i, callbackThrows)
    \/ \E i \in 1..Len(evals) :
           \E variant \in AdapterVariants(evals[i].flag), callbackThrows \in BOOLEAN :
               /\ config.adapter = "mock"
               /\ AdapterEvaluateResolves(i, variant, callbackThrows)
    \/ \E i \in 1..Len(evals) :
           /\ config.adapter = "mock"
           /\ AdapterEvaluateRejects(i)

SpecClient == InitClient /\ [][NextClient]_vars


(***************************************************************************)
(* A LaunchDarklyAdapter or PostHogAdapter on its own.                     *)
(***************************************************************************)
InitVendor ==
    /\ config = [adapter |-> "vendor", hasClose |-> TRUE, hasOnExposure |-> FALSE,
                 defaultContext |-> EmptyObject]
    /\ initialized = FALSE
    /\ initPromise = NoPromise
    /\ promises = <<>>
    /\ returnedEarly = 0
    /\ closes = <<>>
    /\ evals = <<>>
    /\ closedReady = FALSE
    /\ closedMark = 0
    /\ localConfig = [flags |-> EmptyObject, rules |-> <<>>, rollouts |-> <<>>]
    /\ localCalls = <<>>
    /\ sdk \in SdkAdapters
    /\ sdkCalls = <<>>
    /\ ServerInitFixed
    /\ HookInitFixed

NextVendor ==
    \/ VendorInitialize
    \/ \E c \in 1..Len(sdkCalls), fulfilled \in BOOLEAN : VendorInitializeSettles(c, fulfilled)
    \/ \E in \in SdkInputs : VendorEvaluate(in.flag, in.context, in.defaultValue)
    \/ \E c \in 1..Len(sdkCalls), result \in SdkResults : VendorSdkResolves(c, result)
    \/ \E c \in 1..Len(sdkCalls) : VendorSdkRejects(c)
    \/ VendorClose
    \/ \E c \in 1..Len(sdkCalls), fulfilled \in BOOLEAN : VendorCloseSettles(c, fulfilled)

SpecVendor == InitVendor /\ [][NextVendor]_vars


(***************************************************************************)
(* The server module with two requests in flight.                          *)
(***************************************************************************)
\* the facade, the adapters and the component when they are not used
InitIdleClient ==
    /\ config = [adapter |-> "mock", hasClose |-> TRUE, hasOnExposure |-> FALSE,
                 defaultContext |-> EmptyObject]
    /\ initialized = FALSE
    /\ initPromise = NoPromise
    /\ promises = <<>>
    /\ returnedEarly = 0
    /\ closes = <<>>
    /\ evals = <<>>
    /\ closedReady = FALSE
    /\ closedMark = 0
    /\ localConfig = [flags |-> EmptyObject, rules |-> <<>>, rollouts |-> <<>>]
    /\ localCalls = <<>>
    /\ SdkInitFixed

InitServer ==
    /\ InitIdleClient
    /\ ServerInitFixed
    /\ HookInitFixed

NextServer ==
    \/ \E context \in ServerClientContexts : SetServerClient(context)
    \/ \E r \in ServerRequests : SetServerContext(r)
    \/ \E r \in ServerRequests, in \in ServerFlagInputs, argument \in ContextArguments :
           GetFlag(r, in, argument)
    \/ \E r \in ServerRequests, flags \in ServerFlagLists, argument \in ContextArguments :
           GetFlags(r, flags, argument)
    \/ \E r \in ServerRequests, flagNames \in PreloadLists, argument \in ContextArguments :
           PreloadFlags(r, flagNames, argument)
    \/ \E c \in 1..Len(serverCalls) :
           \E i \in 1..Len(serverCalls[c].evaluations) :
               \E value \in ServerVariants(serverCalls[c].flags[i].flag) :
                   ServerEvaluateResolves(c, i, value)
    \/ \E c \in 1..Len(serverCalls) :
           \E i \in 1..Len(serverCalls[c].evaluations) : ServerEvaluateRejects(c, i)

SpecServer == InitServer /\ [][NextServer]_vars


(***************************************************************************)
(* A component using one of the hooks.                                     *)
(***************************************************************************)
InitHook ==
    /\ InitIdleClient
    /\ ServerInitFixed
    /\ hook \in { [kind |-> kind, hasClient |-> hasClient, mounted |-> "no",
                    flags |-> <<>>, context |-> EmptyObject,
                    value |-> IF kind = "useFlags" THEN EmptyObject ELSE JsUndefined,
                    status |-> NoStatus]
                  : kind \in HookKinds, hasClient \in BOOLEAN }
    /\ effects = <<>>

NextHook ==
    \/ \E flags \in HookFlagLists(hook.kind), context \in HookContexts : Mount(flags, context)
    \/ \E flags \in HookFlagLists(hook.kind), context \in HookContexts :
           Rerender(flags, context)
    \/ Unmount
    \/ \E e \in 1..Len(effects) :
           \E i \in 1..Len(effects[e].evaluations) :
               \E value \in HookVariants(effects[e].flags[i].flag) :
                   EffectEvaluationResolves(e, i, value)
    \/ \E e \in 1..Len(effects) :
           \E i \in 1..Len(effects[e].evaluations) : EffectEvaluationRejects(e, i)

SpecHook == InitHook /\ [][NextHook]_vars


(***************************************************************************)
(* Properties of the client facade (specification Spec).                   *)
(***************************************************************************)
AnyInitializeFailed == \E p \in 1..Len(promises) : promises[p].state = CatchSettlesAs

\* C1: with no close() and no adapter failure, any number of initialize() calls invokes
\* adapter.initialize() exactly once: calls made while it is in flight are handed the
\* same promise, calls made once the client is Ready return without the adapter.
C1_InitializeInvokesAdapterOnce ==
    (Len(closes) = 0 /\ ~AnyInitializeFailed /\ InitializeCalls >= 1)
        => /\ Len(promises) = 1
           /\ (returnedEarly > 0 => promises[1].state = "fulfilled")

C1_Witness ==
    /\ Len(closes) = 0 /\ ~AnyInitializeFailed
    /\ Len(promises) = 1 /\ promises[1].joined >= 1 /\ returnedEarly >= 1
    /\ initialized

C3_FailedInitializeLeavesUninitialized ==
    [][\A p \in 1..Len(promises) :
          AdapterInitializeRejects(p) =>
              /\ promises'[p].state = "rejected: InitializationError"
              /\ initPromise' = NoPromise
              /\ ~initialized']_vars

\* C4: once a close() called on a Ready client has resolved, evaluate() is rejected
\* without reaching the adapter until an initialize() call made after that close()
\* succeeds.
C4_ClosedClientRejectsEvaluate ==
    /\ closedReady => EvaluateRejects
    /\ \A i \in 1..Len(evals) :
          evals[i].afterClose => (evals[i].state = "rejected" /\ evals[i].adapterCalls = <<>>)

\* the schema defaults of the flags of FlagSchema, as the specification states them
ExpectedSchemaDefault(flag) ==
    CASE flag = "theme"          -> "light"
      [] flag = "darkMode"       -> JsFalse
      [] flag = "maxItems"       -> JsZero
      [] flag = "welcomeMessage" -> JsEmptyString
      [] OTHER                   -> JsUndefined

\* C5: when adapter.evaluate() rejects or throws on a Ready client, evaluate() resolves
\* with the caller default if one was given and with the schema default otherwise, and
\* the exposure callback is not called.
C5_AdapterFailureResolvesToFallback ==
    \A i \in 1..Len(evals) :
        evals[i].adapter \in {"rejected", "threw"} =>
            /\ evals[i].state = "resolved"
            /\ evals[i].result = IF evals[i].defaultValue # JsUndefined
                                 THEN evals[i].defaultValue
                                 ELSE ExpectedSchemaDefault(evals[i].flag)
            /\ evals[i].exposures = <<>>

C5_Witness ==
    /\ Len(evals) = 1 /\ evals[1].adapter = "rejected"
    /\ evals[1].defaultValue = "system" /\ evals[1].result = "system"

\* C6: when the exposure callback throws, evaluate() still resolves with the variant
\* the adapter returned.
C6_ThrowingCallbackKeepsVariant ==
    \A i \in 1..Len(evals) :
        evals[i].callbackThrew =>
            (evals[i].state = "resolved" /\ evals[i].result = evals[i].variant)

\* C7: for an evaluate() whose adapter call resolved with variant v, the exposure
\* callback (when configured) has been called exactly once, with (flag, v, the context
\* that was passed to the adapter), by the time evaluate() is resolved; it is not called
\* before the adapter has resolved.
C7_ExposureOncePerResolvedEvaluation ==
    \A i \in 1..Len(evals) :
        /\ (evals[i].adapter = "resolved" /\ config.hasOnExposure) =>
              /\ evals[i].state = "resolved"
              /\ Len(evals[i].adapterCalls) = 1
              /\ evals[i].exposures =
                    << [flag |-> evals[i].flag, variant |-> evals[i].variant,
                        context |-> evals[i].adapterCalls[1].context] >>
        /\ evals[i].adapter # "resolved" => evals[i].exposures = <<>>

C7_Witness ==
    /\ Len(evals) = 1 /\ evals[1].adapter = "resolved" /\ config.hasOnExposure
    /\ evals[1].variant = "dark" /\ Len(evals[1].exposures) = 1
    /\ "userId" \in DOMAIN evals[1].context


(***************************************************************************)
(* Properties of LocalAdapter.evaluate (specification SpecLocal).          *)
(***************************************************************************)
\* the rules of the configuration that are for the call's flag and match its context
MatchingRules(c) ==
    {i \in 1..Len(localConfig.rules) :
        /\ localConfig.rules[i].flag = c.flag
        /\ Matches(localConfig.rules[i].match, c.context)}

\* the rollout entries of the configuration that are for the call's flag
RolloutsFor(c) == {i \in 1..Len(localConfig.rollouts) : localConfig.rollouts[i].flag = c.flag}

Least(S) == CHOOSE i \in S : \A j \in S : i <= j

HasUserId(c) ==
    /\ "userId" \in DOMAIN c.context
    /\ c.context.userId \notin {JsUndefined, JsEmptyString}

\* what the call returns when neither a rule nor a rollout applies
StaticOrDefault(c) ==
    IF c.flag \in DOMAIN localConfig.flags THEN localConfig.flags[c.flag] ELSE c.defaultValue

\* C8: when at least one rule for the evaluated flag matches the context, the result is
\* the variant of such a rule, whatever rollout, static value and default are configured.
C8_MatchingRuleWins ==
    \A k \in 1..Len(localCalls) :
        LET c == localCalls[k]
        IN  MatchingRules(c) # {} =>
                /\ c.returned.via = "rule"
                /\ \E i \in MatchingRules(c) : c.returned.value = localConfig.rules[i].variant

\* a matching rule beside a 100% rollout for a user with a userId, and a static value
C8_Witness ==
    \E k \in 1..Len(localCalls) :
        LET c == localCalls[k]
        IN  /\ MatchingRules(c) # {} /\ HasUserId(c)
            /\ RolloutsFor(c) # {}
            /\ localConfig.rollouts[Least(RolloutsFor(c))].percentage = 100
            /\ c.flag \in DOMAIN localConfig.flags
            /\ c.returned.value = "vip-variant"

\* C9: of several matching rules the first in the configured sequence supplies the
\* variant; a rule for another flag is never applied, even if its predicate matches.
C9_FirstMatchingRuleInOrder ==
    \A k \in 1..Len(localCalls) :
        LET c == localCalls[k]
        IN  /\ MatchingRules(c) # {} =>
                  c.returned.value = localConfig.rules[Least(MatchingRules(c))].variant
            /\ MatchingRules(c) = {} => c.returned.via # "rule"

\* two rules match, with different variants
C9_Witness ==
    \E k \in 1..Len(localCalls) :
        LET c == localCalls[k]
        IN  /\ Cardinality(MatchingRules(c)) = 2
            /\ localConfig.rules[1].variant # localConfig.rules[2].variant
            /\ c.returned.value = localConfig.rules[1].variant

\* C10: with no matching rule, a rollout entry for the flag and a non-empty userId, the
\* rollout's variant is returned exactly when the bucket of (userId, flag, seed or
\* "default") is strictly below the percentage; otherwise the static value is returned,
\* or the default when there is none.
C10_RolloutIffBucketBelowPercentage ==
    \A k \in 1..Len(localCalls) :
        LET c == localCalls[k]
        IN  (MatchingRules(c) = {} /\ RolloutsFor(c) # {} /\ HasUserId(c)) =>
                LET r == localConfig.rollouts[Least(RolloutsFor(c))]
                    seed == IF r.seed = JsUndefined THEN "default" ELSE r.seed
                    inRollout == Bucket(c.context.userId, c.flag, seed) < r.percentage
                IN  /\ (c.returned.via = "rollout") <=> inRollout
                    /\ inRollout => c.returned.value = r.variant
                    /\ ~inRollout => c.returned.value = StaticOrDefault(c)

\* a user in a 50% rollout
C10_Witness ==
    \E k \in 1..Len(localCalls) :
        LET c == localCalls[k]
        IN  /\ MatchingRules(c) = {} /\ RolloutsFor(c) # {} /\ HasUserId(c)
            /\ localConfig.rollouts[Least(RolloutsFor(c))].percentage = 50
            /\ c.returned = [value |-> "rollout-variant", via |-> "rollout"]

\* the rollout step of the call returns: a userId, a rollout entry for the flag, and the
\* bucket of the user below the percentage of the entry consulted
RolloutApplies(c) ==
    /\ HasUserId(c)
    /\ RolloutsFor(c) # {}
    /\ LET r == localConfig.rollouts[Least(RolloutsFor(c))]
           seed == IF r.seed = JsUndefined THEN "default" ELSE r.seed
       IN  Bucket(c.context.userId, c.flag, seed) < r.percentage

\* C11: for a context whose userId is absent or empty no rollout is applied, whatever
\* its percentage; with no matching rule the call returns the static value if there is
\* one and the default passed to evaluate otherwise.
C11_NoUserIdSkipsRollout ==
    \A k \in 1..Len(localCalls) :
        LET c == localCalls[k]
        IN  ~HasUserId(c) =>
                /\ c.returned.via # "rollout"
                /\ MatchingRules(c) = {} => c.returned.value = StaticOrDefault(c)

\* an empty userId, a 100% rollout for the flag, a static value
C11_Witness ==
    \E k \in 1..Len(localCalls) :
        LET c == localCalls[k]
        IN  /\ c.context = [userId |-> JsEmptyString]
            /\ MatchingRules(c) = {} /\ RolloutsFor(c) # {}
            /\ localConfig.rollouts[Least(RolloutsFor(c))].percentage = 100
            /\ c.returned = [value |-> "control", via |-> "static"]

\* the seeds of the rollouts checked: none, or a named experiment
RolloutSeeds == {JsUndefined, "exp-a"}

\* C12: whatever the userId, flag and seed (hence whatever the hash), percentage 0
\* excludes the user and percentage 100 includes the user; a call that reaches a 0%
\* entry does not return its variant, a call that reaches a 100% entry does.
C12_ZeroAndHundredIgnoreHash ==
    \A k \in 1..Len(localCalls) :
        LET c == localCalls[k]
        IN  /\ ("userId" \in DOMAIN c.context /\ c.context.userId # JsUndefined) =>
                  \A seed \in RolloutSeeds :
                      /\ ~isUserInRollout(c.context.userId, 0, c.flag, seed)
                      /\ isUserInRollout(c.context.userId, 100, c.flag, seed)
            /\ (MatchingRules(c) = {} /\ HasUserId(c) /\ RolloutsFor(c) # {}) =>
                  LET r == localConfig.rollouts[Least(RolloutsFor(c))]
                  IN  /\ r.percentage = 0 => c.returned.via # "rollout"
                      /\ r.percentage = 100 => c.returned = [value |-> r.variant, via |-> "rollout"]

\* a user whose bucket is 99 in a 100% rollout
C12_Witness ==
    \E k \in 1..Len(localCalls) :
        LET c == localCalls[k]
        IN  /\ HasUserId(c) /\ Bucket(c.context.userId, c.flag, "default") = 99
            /\ c.returned = [value |-> "other-rollout", via |-> "rollout"]

\* C13: when no rule matches and no rollout applies, the call returns the static value
\* of the flag whenever the static map has one (also a falsy one), and the defaultValue
\* argument only when it has none.
C13_StaticBeforeDefault ==
    \A k \in 1..Len(localCalls) :
        LET c == localCalls[k]
        IN  (MatchingRules(c) = {} /\ ~RolloutApplies(c)) =>
                /\ c.returned.via = "static"
                /\ c.flag \in DOMAIN localConfig.flags =>
                      c.returned.value = localConfig.flags[c.flag]
                /\ c.flag \notin DOMAIN localConfig.flags =>
                      c.returned.value = c.defaultValue

\* the static value false is returned, not the default
C13_Witness ==
    \E k \in 1..Len(localCalls) :
        LET c == localCalls[k]
        IN  /\ MatchingRules(c) = {} /\ ~RolloutApplies(c)
            /\ c.flag \in DOMAIN localConfig.flags
            /\ c.returned.value = JsFalse /\ c.defaultValue # JsFalse


(***************************************************************************)
(* Properties of evaluate() over the range of inputs (specification        *)
(* SpecClient).                                                            *)
(***************************************************************************)
\* the fallback of a call as the specification states it
ExpectedFallback(e) ==
    IF e.defaultValue # JsUndefined THEN e.defaultValue ELSE ExpectedSchemaDefault(e.flag)

\* C14: the fallback passed to the adapter as defaultValue, and returned when the
\* adapter fails, is the caller's default whenever one is given (false, 0 and "" are
\* defaults given), otherwise the schema default: the first element of an enumerated
\* domain, "" for 'string', 0 for 'number', false for 'boolean'.
C14_FallbackIsCallerDefaultElseSchemaDefault ==
    \A i \in 1..Len(evals) :
        LET e == evals[i]
        IN  /\ e.adapterCalls # <<>> => e.adapterCalls[1].defaultValue = ExpectedFallback(e)
            /\ e.adapter \in {"rejected", "threw"} => e.result = ExpectedFallback(e)

\* a 'string' flag evaluated with no default while the adapter fails
C14_Witness ==
    \E i \in 1..Len(evals) :
        /\ evals[i].flag = "welcomeMessage" /\ evals[i].defaultValue = JsUndefined
        /\ evals[i].adapter = "rejected" /\ evals[i].result = JsEmptyString

\* the flag is in no part of the configuration: schema, static map, rules, rollouts
MissingEverywhere(flag) ==
    /\ flag \notin DOMAIN FlagSchema
    /\ flag \notin DOMAIN localConfig.flags
    /\ \A r \in 1..Len(localConfig.rules) : localConfig.rules[r].flag # flag
    /\ \A r \in 1..Len(localConfig.rollouts) : localConfig.rollouts[r].flag # flag

\* C26: on a Ready client over a LocalAdapter, evaluating a flag that is in neither the
\* schema, the static map, the rules nor the rollouts, with no caller default, never
\* rejects: the fallback is undefined, the adapter is reached and returns undefined,
\* and evaluate() resolves with undefined.
C26_MissingFlagResolvesUndefined ==
    \A i \in 1..Len(evals) :
        LET e == evals[i]
        IN  (/\ config.adapter = "local" /\ e.ready
             /\ MissingEverywhere(e.flag) /\ e.defaultValue = JsUndefined)
            => /\ e.state # "rejected"
               /\ Len(e.adapterCalls) = 1 /\ e.adapterCalls[1].defaultValue = JsUndefined
               /\ e.adapter \in {"pending", "resolved"}
               /\ e.state = "resolved" => e.result = JsUndefined

\* such a call has resolved, for a context with a userId and a configuration with rules
C26_Witness ==
    \E i \in 1..Len(evals) :
        /\ config.adapter = "local" /\ evals[i].ready
        /\ localConfig.rules # <<>> /\ localConfig.rollouts # <<>>
        /\ MissingEverywhere(evals[i].flag) /\ evals[i].defaultValue = JsUndefined
        /\ "userId" \in DOMAIN evals[i].context
        /\ evals[i].state = "resolved" /\ evals[i].result = JsUndefined


(***************************************************************************)
(* Properties of the lifecycle (specification Spec).                       *)
(***************************************************************************)
\* C15: a close() called on a client that is neither Ready nor initializing (never
\* initialized, or closed before) never rejects.
C15_CloseOnIdleClientNeverRejects ==
    \A c \in 1..Len(closes) : closes[c].idle => closes[c].state # "rejected"

C17_EvaluateLeavesLifecycleUnchanged ==
    [][evals' # evals => (initialized' = initialized /\ initPromise' = initPromise)]_vars

\* an evaluate() whose adapter call was rejected, on a client that is still Ready
C17_Witness ==
    /\ Len(evals) = 1 /\ evals[1].adapter = "rejected" /\ evals[1].state = "resolved"
    /\ initialized

\* C27: whatever the interleaving of initialize() and close() calls on one client, at
\* most one adapter.initialize() operation is in flight at any time.
C27_AtMostOneInitializeInFlight ==
    Cardinality({p \in 1..Len(promises) : promises[p].state = "pending"}) <= 1

\* C28: when close() was called while an initialize() was in flight and has resolved,
\* and no initialize() has been called since that close(), the client is not Ready:
\* the late success of the earlier initialization does not set the ready flag.
C28_LateInitializeDoesNotReopen ==
    \A c \in 1..Len(closes) :
        (/\ closes[c].state = "resolved" /\ closes[c].initializing
         /\ InitializeCalls = closes[c].calls)
        => ~initialized

\* C29: when an initialize() has resolved successfully and every close() call was made
\* before that initialize() began, the client is Ready, also when one of those close()
\* calls was still awaiting adapter.close() at the time.
C29_InitializeAfterCloseEndsReady ==
    \A p \in 1..Len(promises) :
        (/\ promises[p].state = "fulfilled"
         /\ \A c \in 1..Len(closes) : closes[c].mark < p)
        => initialized

\* C30: when adapter.close() rejects, close() rejects and that step changes neither the
\* ready flag nor the pending-initialization handle; an evaluate() called on the Ready
\* client after the rejected close() reaches the adapter.
C30_RejectedCloseKeepsLifecycle ==
    /\ [][\A c \in 1..Len(closes) :
             (closes[c].state = "awaiting" /\ closes'[c].state = "rejected")
             => (initialized' = initialized /\ initPromise' = initPromise)]_vars
    /\ [](\A i \in 1..Len(evals) :
             (evals[i].closeRejected /\ evals[i].ready) => Len(evals[i].adapterCalls) = 1)

\* a close() of a Ready client has rejected, the client is Ready with its handle, and
\* an evaluate() called after it was resolved by the adapter
C30_Witness ==
    /\ \E c \in 1..Len(closes) : closes[c].state = "rejected" /\ closes[c].ready
    /\ \A c \in 1..Len(closes) : closes[c].state = "rejected"
    /\ initialized /\ initPromise # NoPromise
    /\ \E i \in 1..Len(evals) :
          /\ evals[i].closeRejected /\ evals[i].ready
          /\ evals[i].adapter = "resolved" /\ evals[i].state = "resolved"

\* C31: provided every adapter operation settles, every initialize() call settles (the
\* promise it returned leaves the pending state, whether the call created it, found it
\* in the handle, follows a failed attempt, or a close() came in between) and every
\* evaluate() that reached the adapter resolves.
C31_EveryCallEventuallySettles ==
    /\ \A p \in 1..MaxInitializeCalls :
          (p <= Len(promises) /\ promises[p].state = "pending")
          ~> (p <= Len(promises) /\ promises[p].state # "pending")
    /\ \A i \in 1..MaxEvaluateCalls :
          (i <= Len(evals) /\ evals[i].state = "awaiting")
          ~> (i <= Len(evals) /\ evals[i].state = "resolved")

\* a coalesced initialize() has failed, a retry made while a close() was awaited has
\* succeeded, and an evaluate() has resolved
C31_Witness ==
    /\ Len(promises) >= 2 /\ Len(closes) >= 1 /\ Len(evals) >= 1
    /\ promises[1].joined > 0 /\ promises[1].state = CatchSettlesAs
    /\ promises[2].state = "fulfilled"
    /\ evals[1].state = "resolved" /\ evals[1].adapterCalls # <<>>


(***************************************************************************)
(* Properties of the context merge (specification SpecClient).             *)
(***************************************************************************)
\* a context carries a userId: the property is there and holds a string
CarriesUserId(ctx) == "userId" \in DOMAIN ctx /\ ctx.userId # JsUndefined

\* the attributes of a context, none when it has no attributes
AttributesOrNone(ctx) == IF "attributes" \in DOMAIN ctx THEN ctx.attributes ELSE EmptyObject

\* C18: the context passed to the adapter has the userId of the per-call context when
\* that context carries one (also the empty string) and the userId of the default
\* context otherwise; its attributes are always a mapping: the default attributes with
\* every per-call attribute applied on top, key by key.
C18_MergedContextOverlaysDefault ==
    \A i \in 1..Len(evals) :
        evals[i].adapterCalls # <<>> =>
            LET m == evals[i].adapterCalls[1].context
                ctx == evals[i].context
                base == config.defaultContext
            IN  /\ Get(m, "userId") = IF CarriesUserId(ctx) THEN ctx.userId
                                      ELSE Get(base, "userId")
                /\ "attributes" \in DOMAIN m
                /\ DOMAIN m.attributes =
                      DOMAIN AttributesOrNone(base) \cup DOMAIN AttributesOrNone(ctx)
                /\ \A k \in DOMAIN m.attributes :
                      m.attributes[k] = IF k \in DOMAIN AttributesOrNone(ctx)
                                        THEN ctx.attributes[k] ELSE base.attributes[k]

\* C19: merging the per-call context once more into the merged context changes
\* nothing: merge(merge(a, b), b) = merge(a, b).
C19_MergeIdempotentInOverride ==
    \A i \in 1..Len(evals) :
        evals[i].adapterCalls # <<>> =>
            MergeContext(MergeContext(config.defaultContext, evals[i].context),
                         evals[i].context)
                = evals[i].adapterCalls[1].context

\* both contexts carry a userId and attributes, with a key in common
C19_Witness ==
    \E i \in 1..Len(evals) :
        /\ evals[i].adapterCalls # <<>>
        /\ evals[i].context = [userId |-> "123",
                               attributes |-> [plan |-> "premium", feature |-> "beta"]]
        /\ config.defaultContext = [userId |-> "default-user",
                                    attributes |-> [country |-> "ID", plan |-> "free"]]
        /\ evals[i].adapterCalls[1].context =
              [userId |-> "123",
               attributes |-> [country |-> "ID", plan |-> "premium", feature |-> "beta"]]

\* C20: no step changes the client's default context, the context a caller passed to
\* evaluate(), the context passed to the adapter, or the adapter's rules, rollouts and
\* static map.
C20_EvaluationMutatesNoInput ==
    [][/\ config' = config
       /\ localConfig' = localConfig
       /\ \A i \in 1..Len(evals) : evals'[i].context = evals[i].context
       /\ \A k \in 1..Len(localCalls) : localCalls'[k].context = localCalls[k].context]_vars

\* an evaluate() resolved by a rule of the LocalAdapter under the client
C20_Witness ==
    /\ Len(evals) = 1 /\ evals[1].state = "resolved"
    /\ Len(localCalls) = 1 /\ localCalls[1].returned = [value |-> "system", via |-> "rule"]
    /\ evals[1].result = "system"


HasStringUserId(c) == "userId" \in DOMAIN c.context /\ c.context.userId # JsUndefined

\* the least signed 32-bit integer
MinInt32 == 0 - 2147483647 - 1

\* C22: the bucket of every key is an integer from 0 to 99, also for a key whose hash
\* is -2^31.
C22_BucketInRange ==
    \A k \in 1..Len(localCalls) :
        LET c == localCalls[k]
        IN  HasStringUserId(c) =>
                \A seed \in RolloutSeeds : Bucket(c.context.userId, c.flag, seed) \in 0..99

\* a call for the user whose key "user-f1chaeka:test-flag:default" hashes to -2^31
C22_Witness ==
    \E k \in 1..Len(localCalls) :
        LET c == localCalls[k]
        IN  /\ HasStringUserId(c)
            /\ simpleHashInt32(RolloutInput(c.context.userId, c.flag, JsUndefined)) = MinInt32
            /\ Bucket(c.context.userId, c.flag, JsUndefined) = 48

\* hash * m + c, truncated to a signed 32-bit integer
TimesPlusToInt32(hash, m, c) ==
    LET lo == Lo16(hash) * m + c
        hi == Hi16(hash) * m + (lo \div TwoTo16)
    IN  FromHalves(hi % TwoTo16, lo % TwoTo16)

\* the hash of the specification over a sequence of character values, with the
\* multiplier m applied at every character
RECURSIVE RollingHash(_, _, _, _)
RollingHash(chars, i, hash, m) ==
    IF i > Len(chars) THEN hash
    ELSE LET next == TimesPlusToInt32(hash, m, chars[i])
         IN  IF next \in Int THEN RollingHash(chars, i + 1, next, m) ELSE next

\* |h| mod 100; |-2^31| = 2^31 = 21474836 * 100 + 48
AbsoluteMod100(h) ==
    IF h >= 0 THEN h % 100 ELSE IF h = MinInt32 THEN 48 ELSE (0 - h) % 100

\* the code points of a string: one value for a character outside the basic plane
CodePoints(str) ==
    IF str = "user-<U+1F600>" THEN <<117, 115, 101, 114, 45, 128512>> ELSE CharCodes(str)

\* the seed of the key: "default" when the rollout names none
KeySeed(seed) == IF seed = JsUndefined THEN "default" ELSE seed

\* C23 as stated: the bucket is |h| mod 100 with h from hash = (hash*31 - hash) + c over
\* the code points of subjectId:flagName:seed.
C23_BucketIsRollingHashAsStated ==
    \A k \in 1..Len(localCalls) :
        LET c == localCalls[k]
        IN  HasStringUserId(c) =>
                \A seed \in RolloutSeeds :
                    Bucket(c.context.userId, c.flag, seed) =
                        AbsoluteMod100(RollingHash(
                            CodePoints(c.context.userId) \o <<58>> \o CodePoints(c.flag)
                                \o <<58>> \o CodePoints(KeySeed(seed)),
                            1, 0, 31 - 1))

\* C23, amended: the bucket is |h| mod 100 with h from hash = (hash*32 - hash) + c,
\* that is hash*31 + c, over the UTF-16 code units of subjectId:flagName:seed, each
\* step truncated to a signed 32-bit integer.
C23_BucketIsRollingHashTimes31 ==
    \A k \in 1..Len(localCalls) :
        LET c == localCalls[k]
        IN  HasStringUserId(c) =>
                \A seed \in RolloutSeeds :
                    Bucket(c.context.userId, c.flag, seed) =
                        AbsoluteMod100(RollingHash(
                            CharCodes(c.context.userId) \o <<58>> \o CharCodes(c.flag)
                                \o <<58>> \o CharCodes(KeySeed(seed)),
                            1, 0, 31))

\* a call for a user whose name has a character outside the basic plane
C23_Witness ==
    \E k \in 1..Len(localCalls) :
        /\ localCalls[k].context = [userId |-> "user-<U+1F600>"]
        /\ localCalls[k].flag = "test-flag"

\* C24: construction throws for a configuration with a rollout whose percentage is
\* not a finite number or lies outside [0, 100] (here: every constructed configuration
\* with one such rollout added), so every rollout of a constructed adapter has a
\* percentage from 0 to 100.
C24_PercentagesValidatedAtConstruction ==
    /\ \A i \in 1..Len(localConfig.rollouts) :
          /\ localConfig.rollouts[i].percentageKind = "finite"
          /\ localConfig.rollouts[i].percentage >= 0
          /\ localConfig.rollouts[i].percentage <= 100
    /\ \A r \in OutOfRangeRollouts :
          ConstructorThrows([localConfig EXCEPT !.rollouts = Append(@, r)])
    /\ \A r \in NonFiniteRollouts :
          ConstructorThrows([localConfig EXCEPT !.rollouts = <<r>>])

\* an adapter constructed with a 0% and a 100% rollout, evaluated
C24_Witness ==
    /\ Len(localConfig.rollouts) = 2
    /\ localConfig.rollouts[1].percentage = 0
    /\ localConfig.rollouts[2].percentage = 100
    /\ Len(localCalls) = 1


\* the user of the call is in the bucket of rollout entry i
InBucketOf(c, i) ==
    LET r == localConfig.rollouts[i]
        seed == IF r.seed = JsUndefined THEN "default" ELSE r.seed
    IN  Bucket(c.context.userId, c.flag, seed) < r.percentage

\* C32: only the first rollout entry configured for the flag is consulted: with no
\* matching rule, when the user is not in the bucket of that entry the call returns
\* the static value (or the default), also when a later entry for the same flag would
\* include the user; when the user is in it, the call returns that entry's variant.
C32_OnlyFirstRolloutConsulted ==
    \A k \in 1..Len(localCalls) :
        LET c == localCalls[k]
        IN  (MatchingRules(c) = {} /\ HasUserId(c) /\ RolloutsFor(c) # {}) =>
                IF InBucketOf(c, Least(RolloutsFor(c)))
                THEN c.returned = [value |-> localConfig.rollouts[Least(RolloutsFor(c))].variant,
                                   via |-> "rollout"]
                ELSE c.returned = [value |-> StaticOrDefault(c), via |-> "static"]

\* the first entry for the flag excludes the user, a later one (100%) includes them,
\* and the static value was returned
C32_Witness ==
    \E k \in 1..Len(localCalls) :
        LET c == localCalls[k]
        IN  /\ MatchingRules(c) = {} /\ HasUserId(c)
            /\ Cardinality(RolloutsFor(c)) = 2
            /\ ~InBucketOf(c, 1) /\ InBucketOf(c, 2)
            /\ localConfig.rollouts[2].percentage = 100
            /\ c.returned = [value |-> "control", via |-> "static"]


\* the percentages compared, and the seeds of the rollouts configured
PercentageSamples == {0, 23, 50, 77, 100}
SeedSamples == {JsUndefined, "exp-a"}

\* the sampled percentages at which the user of the call is in the rollout
InRolloutAt(c, seed) ==
    {p \in PercentageSamples : isUserInRollout(c.context.userId, p, c.flag, seed)}

\* C33: rollout membership is monotone in the percentage: for the userId and flag of a
\* call and a fixed seed, a user who is in the rollout at percentage p is in it at
\* every percentage q >= p.
C33_RolloutMonotoneInPercentage ==
    \A k \in 1..Len(localCalls) :
        LET c == localCalls[k]
        IN  HasUserId(c) =>
                \A seed \in SeedSamples :
                    LET in == InRolloutAt(c, seed)
                    IN  \A p \in in : \A q \in PercentageSamples : q >= p => q \in in

\* a user who is out of the rollout at 23% and in it at 50%, evaluated against a 50%
\* rollout
C33_Witness ==
    \E k \in 1..Len(localCalls) :
        LET c == localCalls[k]
        IN  /\ HasUserId(c) /\ MatchingRules(c) = {} /\ RolloutsFor(c) # {}
            /\ localConfig.rollouts[Least(RolloutsFor(c))].percentage = 50
            /\ localConfig.rollouts[Least(RolloutsFor(c))].seed = JsUndefined
            /\ 23 \notin InRolloutAt(c, JsUndefined) /\ 50 \in InRolloutAt(c, JsUndefined)
            /\ c.returned.via = "rollout"


(***************************************************************************)
(* Properties of the vendor adapters (specification SpecVendor).           *)
(***************************************************************************)
\* C25: evaluate() of an adapter never rejects, in any state of the adapter: when the
\* adapter cannot evaluate (no client yet, client closed, provider failure) the call
\* resolves with the defaultValue it was given.
C25_AdapterEvaluateNeverRejects ==
    \A c \in 1..Len(sdkCalls) :
        sdkCalls[c].method = "evaluate" => sdkCalls[c].state # "rejected"

\* no initialize() call was made on the adapter before its c-th call
NeverInitializedBefore(c) == \A d \in 1..(c - 1) : sdkCalls[d].method # "initialize"

Evaluated(call) == call.evaluations # <<>>

\* C35: the server context is shared by the requests: a call without an explicit
\* context evaluates with the context of whichever request stored one last, also when
\* the calling request had stored its own before; so there is an interleaving in which
\* the flag of one request is evaluated with the context of the other (C35_Witness).
C35_ContextSharedAcrossRequests ==
    \A c \in 1..Len(serverCalls) :
        LET call == serverCalls[c]
        IN  (Evaluated(call) /\ ~call.argument.given) =>
                \A r \in ServerRequests :
                    call.serverContext = RequestContext(r) => call.evalContext = RequestContext(r)

\* request-a stored its context, request-b stored its own, then request-a called
\* getFlag() without a context: the flag is evaluated with the context of request-b
C35_Witness ==
    \E c \in 1..Len(serverCalls) :
        LET call == serverCalls[c]
        IN  /\ call.fn = "getFlag" /\ call.request = "request-a" /\ call.ownContextSet
            /\ Evaluated(call) /\ ~call.argument.given
            /\ call.evalContext = RequestContext("request-b")
            /\ call.state = "resolved" /\ call.evaluations[1].state = "fulfilled"

\* C36: getFlag, getFlags and preloadFlags evaluate every flag with one context: the
\* explicit context argument as it is (not merged with the server context) when one is
\* passed, otherwise the server context as it was stored when the call was made.
C36_ExplicitContextReplacesServerContext ==
    \A c \in 1..Len(serverCalls) :
        LET call == serverCalls[c]
        IN  Evaluated(call) =>
                /\ Len(call.evaluations) = Len(call.flags)
                /\ call.evalContext = IF call.argument.given THEN call.argument.context
                                       ELSE call.serverContext

\* getFlags with an explicit context that has no userId, while the server context has one
C36_Witness ==
    \E c \in 1..Len(serverCalls) :
        LET call == serverCalls[c]
        IN  /\ call.fn = "getFlags" /\ Evaluated(call) /\ call.argument.given
            /\ "userId" \in DOMAIN call.serverContext
            /\ "userId" \notin DOMAIN call.evalContext
            /\ call.state = "resolved"

\* the caller's defaults: one entry per requested flag that has a default
CallerDefaults(flags) ==
    [f \in {flags[i].flag : i \in {j \in 1..Len(flags) : flags[j].defaultValue # JsUndefined}}
        |-> (CHOOSE in \in {flags[i] : i \in 1..Len(flags)} : in.flag = f).defaultValue]

\* C37: getFlags never rejects, and when no server client is set or any one of its
\* evaluations rejects, its result is exactly the caller's defaults: an entry for every
\* requested flag with a default, none for the others, whatever the other evaluations
\* returned.
C37_GetFlagsAllOrNothing ==
    \A c \in 1..Len(serverCalls) :
        LET call == serverCalls[c]
        IN  call.fn = "getFlags" =>
                /\ call.state \in {"awaiting", "resolved"}
                /\ (~Evaluated(call)
                    \/ \E i \in 1..Len(call.evaluations) : call.evaluations[i].state = "rejected")
                   => (call.state = "resolved" /\ call.result = CallerDefaults(call.flags))

\* the first evaluation fulfilled, the second rejected: only the default of the first
\* flag is returned
C37_Witness ==
    \E c \in 1..Len(serverCalls) :
        LET call == serverCalls[c]
        IN  /\ call.fn = "getFlags" /\ Len(call.evaluations) = 2
            /\ call.evaluations[1] = [state |-> "fulfilled", value |-> JsTrue]
            /\ call.evaluations[2].state = "rejected"
            /\ call.flags[2].defaultValue = JsUndefined
            /\ call.result = [f \in {"dark-mode"} |-> JsFalse]


(***************************************************************************)
(* Properties of the hooks (specification SpecHook).                       *)
(***************************************************************************)
\* C38: in useFlag, useFlagWithStatus and useFlags, the result or the error of an
\* evaluation that arrives after the cleanup of its effect ran (the component
\* unmounted, or the effect was run again for another flag or context) changes neither
\* the value nor the status of the hook.
C38_LateResultIsDiscarded ==
    [][\A e \in 1..Len(effects) :
          (effects[e].cancelled /\ effects'[e].evaluations # effects[e].evaluations)
          => hook' = hook]_vars

\* the evaluation of a superseded effect has fulfilled while the effect that replaced
\* it is still loading
C38_Witness ==
    /\ hook.kind = "useFlagWithStatus" /\ hook.mounted = "yes" /\ Len(effects) = 2
    /\ effects[1].cancelled /\ effects[1].state = "fulfilled"
    /\ effects[1].evaluations[1].value = JsTrue
    /\ effects[2].state = "pending"
    /\ hook.status = Loading /\ hook.value = JsFalse

\* C39: while the evaluation of the flag the component currently asks for has not
\* resolved, or after it has failed, useFlag returns the defaultValue the component
\* currently passes (undefined when it passes none), never the value of another flag.
C39_DefaultUntilCurrentFlagResolves ==
    (hook.kind = "useFlag" /\ hook.mounted = "yes" /\ effects # <<>>)
    => LET current == effects[Len(effects)]
       IN  current.state \in {"pending", "rejected"}
           => hook.value = hook.flags[1].defaultValue

====
